---- MODULE Spec2Model ----
(***************************************************************************)
(* A model of the verse-card generator: the verse database loader and the  *)
(* reference parser of vcg/bible.py, the card and option model of          *)
(* vcg/model.py and vcg/render.py, and the request handlers of vcg/app.py  *)
(* acting on one browser session and on the temporary files of the         *)
(* preview cache.                                                          *)
(*                                                                         *)
(* Text is a sequence of one-character strings, so that the regular        *)
(* expressions of the parser and the substring test of the verse edit are  *)
(* computed character by character.                                        *)
(***************************************************************************)
EXTENDS Integers, Sequences, FiniteSets, TLC

\* ------------------------------------------------------------------------
\* Bounds of the model
\* ------------------------------------------------------------------------

\* Requests and file removals in one behaviour: uuids and file names are
\* fresh for ever, so the behaviours are cut at this many steps.
MaxSteps == 4

\* The database files the loader is run on: at most this many books, of at
\* most this many chapters, of at most this many verses.
MaxBooks == 3
MaxChapters == 2
MaxVerses == 2

\* The references the parser is run on: chapter and verse numbers up to
\* this, and at most this many clauses after the first verse of a group.
MaxNum == 3
MaxClauses == 2

\* The decks whose verses are addressed one by one: at most this many cards.
MaxCards == 1

\* ------------------------------------------------------------------------
\* Characters
\* ------------------------------------------------------------------------

Digits == <<"0", "1", "2", "3", "4", "5", "6", "7", "8", "9">>

Letters == {"J", "o", "h", "d", "e", "R", "v", "X", "y", "z", "a", "b", "c", "T"}

IsDigit(c) == \E i \in 1..10 : Digits[i] = c

DigitVal(c) == (CHOOSE i \in 1..10 : Digits[i] = c) - 1

IsAlpha(c) == c \in Letters

IsAlnum(c) == IsAlpha(c) \/ IsDigit(c)

IsSpace(c) == c = " "

\* Python's `a in b` on strings: a occurs in b as a contiguous run.
IsSubstring(a, b) ==
    \E i \in 0..(Len(b) - Len(a)) : SubSeq(b, i + 1, i + Len(a)) = a

\* range(a, b) as a sequence: a, a+1, ..., b-1.
Range(a, b) == [i \in 1..(IF b > a THEN b - a ELSE 0) |-> a + i - 1]

\* ------------------------------------------------------------------------
\* The verse database (vcg/bible.py)
\* ------------------------------------------------------------------------

Joh == <<"J", "o", "h">>
Jde == <<"J", "d", "e">>
Rev == <<"R", "e", "v">>
Xyz == <<"X", "y", "z">>

\* Book codes in the order the generated files hold them.
BookCodes == <<Joh, Jde, Rev, Xyz>>

VerseRef(book, chapter, verse) ==
    [book |-> book, chapter |-> chapter, verse |-> verse]

\* The lines of the database file, as parse_verse_line returns them: a small
\* file grouped by book and chapter, the one-chapter book Jde followed by
\* chapter 1 of Rev as in the bundled file.
DbLines ==
    << [book |-> Joh, chapter |-> 1, verse |-> 1, text |-> <<"a", "b">>],
       [book |-> Joh, chapter |-> 1, verse |-> 2, text |-> <<"b", "a">>],
       [book |-> Joh, chapter |-> 2, verse |-> 1, text |-> <<"a", "b">>],
       [book |-> Joh, chapter |-> 2, verse |-> 2, text |-> <<"b", "a">>],
       [book |-> Jde, chapter |-> 1, verse |-> 1, text |-> <<"a", "b">>],
       [book |-> Jde, chapter |-> 1, verse |-> 2, text |-> <<"b", "a">>],
       [book |-> Rev, chapter |-> 1, verse |-> 1, text |-> <<"a", "b">>] >>

\* The long display names of the books (the entries the model's inputs use).
BOOK_NAMES ==
    (Joh :> <<"J", "o", "h", "n">>) @@
    (Jde :> <<"J", "d", "e">>) @@
    (Rev :> <<"R", "e", "v">>)

\* d[k] = v on a dict.
DictSet(d, k, v) == [x \in (DOMAIN d) \cup {k} |-> IF x = k THEN v ELSE d[x]]

\* The empty dict.
EmptyDict == [x \in {} |-> 0]

\* No book / no chapter yet (None).
NoBook == <<>>
NoChapter == 0

\* The state of the loader before the first line.
LoadStart ==
    [verses |-> EmptyDict, books |-> EmptyDict, order |-> <<>>,
     cur_book |-> NoBook, max_verses |-> EmptyDict,
     cur_chapter |-> NoChapter, last_verse |-> 0]

\* One iteration of the loop of BibleBooks.__init__ on the line l.
LoadLine(st, l) ==
    LET mv1 == IF l.chapter # st.cur_chapter /\ st.cur_chapter # NoChapter
               THEN DictSet(st.max_verses, st.cur_chapter, st.last_verse)
               ELSE st.max_verses
        newBook == l.book # st.cur_book /\ st.cur_book # NoBook
    IN  [verses      |-> DictSet(st.verses, VerseRef(l.book, l.chapter, l.verse), l.text),
         books       |-> IF newBook THEN DictSet(st.books, st.cur_book, mv1)
                         ELSE st.books,
         order       |-> IF newBook /\ st.cur_book \notin DOMAIN st.books
                         THEN Append(st.order, st.cur_book) ELSE st.order,
         cur_book    |-> l.book,
         max_verses  |-> IF newBook THEN EmptyDict ELSE mv1,
         cur_chapter |-> l.chapter,
         last_verse  |-> l.verse]

RECURSIVE LoadLines(_, _, _)
LoadLines(st, lines, i) ==
    IF i > Len(lines) THEN st
    ELSE LoadLines(LoadLine(st, lines[i]), lines, i + 1)

\* BibleBooks.__init__ on a non-empty file: the loop, then the last open
\* chapter and book.
BibleBooks(lines) ==
    LET st == LoadLines(LoadStart, lines, 1)
        mv == DictSet(st.max_verses, st.cur_chapter, st.last_verse)
    IN  [verses |-> st.verses,
         books  |-> DictSet(st.books, st.cur_book, mv),
         order  |-> IF st.cur_book \in DOMAIN st.books THEN st.order
                    ELSE Append(st.order, st.cur_book)]

\* The database of the running application.
bb == BibleBooks(DbLines)

\* bb.last_verse(book, chapter) is defined (no KeyError).
HasLastVerse(db, book, chapter) ==
    book \in DOMAIN db.books /\ chapter \in DOMAIN db.books[book]

last_verse(db, book, chapter) == db.books[book][chapter]

is_valid_ref(db, v) ==
    /\ v.book \in DOMAIN db.books
    /\ v.chapter \in DOMAIN db.books[v.book]
    /\ ~(v.verse < 1 \/ v.verse > db.books[v.book][v.chapter])

\* bb[ref] is defined (no KeyError).
HasVerse(db, ref) == ref \in DOMAIN db.verses

\* The result of a call that returns a value or raises.
Returned(val) == [val |-> val, err |-> ""]
Raised(exc) == [val |-> 0, err |-> exc]

\* book_seq.index(book): the position of the book in list(self._books).
IndexOf(seq, x) == CHOOSE i \in 1..Len(seq) : seq[i] = x

\* get_next_ref: book_seq[book_i + 1] past the last book is an IndexError.
get_next_ref(db, v) ==
    LET inc_verse   == VerseRef(v.book, v.chapter, v.verse + 1)
        inc_chapter == VerseRef(v.book, v.chapter + 1, 1)
        book_seq    == db.order
        book_i      == IndexOf(book_seq, v.book)
        inc_book    == VerseRef(book_seq[book_i + 1], 1, 1)
    IN  IF ~is_valid_ref(db, v) THEN Returned(v)
        ELSE IF is_valid_ref(db, inc_verse) THEN Returned(inc_verse)
        ELSE IF is_valid_ref(db, inc_chapter) THEN Returned(inc_chapter)
        ELSE IF book_i + 1 > Len(book_seq) THEN Raised("IndexError")
        ELSE IF is_valid_ref(db, inc_book) THEN Returned(inc_book)
        ELSE Raised("StopIteration")

\* refs_are_contiguous: an exception of get_next_ref is not caught.
refs_are_contiguous(db, v1, v2) ==
    LET n == get_next_ref(db, v1)
    IN  IF n.err # "" THEN n ELSE Returned(n.val = v2)

\* ------------------------------------------------------------------------
\* ParseStream (vcg/bible.py): a cursor (s, pos), pos counting from 0
\* ------------------------------------------------------------------------

eos(s, pos) == pos >= Len(s)

\* The end of the longest run of whitespace, of digits, of letters and
\* digits that starts at pos (the greedy \s*, [0-9]*, [A-Za-z0-9]*).
RECURSIVE SkipSpaces(_, _)
SkipSpaces(s, pos) ==
    IF pos < Len(s) /\ IsSpace(s[pos + 1]) THEN SkipSpaces(s, pos + 1) ELSE pos

RECURSIVE SkipDigits(_, _)
SkipDigits(s, pos) ==
    IF pos < Len(s) /\ IsDigit(s[pos + 1]) THEN SkipDigits(s, pos + 1) ELSE pos

RECURSIVE SkipAlnum(_, _)
SkipAlnum(s, pos) ==
    IF pos < Len(s) /\ IsAlnum(s[pos + 1]) THEN SkipAlnum(s, pos + 1) ELSE pos

\* eat(RX_WS): always matches, possibly nothing.
eat_ws(s, pos) == SkipSpaces(s, pos)

\* int() of a run of decimal digits.
RECURSIVE IntOf(_)
IntOf(ds) ==
    IF ds = <<>> THEN 0
    ELSE 10 * IntOf(SubSeq(ds, 1, Len(ds) - 1)) + DigitVal(ds[Len(ds)])

Failed == [ok |-> FALSE, val |-> 0, pos |-> 0]

\* read_name: RX_NAME is a letter, letters and digits, then at least one
\* whitespace character; the name is the part before the whitespace.
read_name(s, pos) ==
    IF pos < Len(s) /\ IsAlpha(s[pos + 1])
    THEN LET e == SkipAlnum(s, pos + 1)
         IN  IF e < Len(s) /\ IsSpace(s[e + 1])
             THEN [ok |-> TRUE, val |-> SubSeq(s, pos + 1, e), pos |-> eat_ws(s, e)]
             ELSE Failed
    ELSE Failed

\* read_num with RX_NUM taking no digit at all ([0-9]* for [0-9]+) and the
\* empty run read as 0.
read_num_EmptyIsZero(s, pos) ==
    LET e == SkipDigits(s, pos)
    IN  [ok |-> TRUE, val |-> IntOf(SubSeq(s, pos + 1, e)), pos |-> eat_ws(s, e)]

\* read_num: RX_NUM is at least one digit, then any whitespace.
read_num(s, pos) ==
    LET e == SkipDigits(s, pos)
    IN  IF e > pos
        THEN [ok |-> TRUE, val |-> IntOf(SubSeq(s, pos + 1, e)), pos |-> eat_ws(s, e)]
        ELSE Failed

\* accept(literal) for the one-character literals of parse_ref; require is
\* accept with a SyntaxError when the literal is absent.
accept(s, pos, literal) ==
    IF pos < Len(s) /\ s[pos + 1] = literal
    THEN [ok |-> TRUE, val |-> 0, pos |-> eat_ws(s, pos + 1)]
    ELSE Failed

\* ------------------------------------------------------------------------
\* parse_ref (vcg/bible.py): the identifiers yielded, and how the generator
\* ended ("" for exhausted, else the exception raised after the last yield)
\* ------------------------------------------------------------------------

Parsed(out, err) == [out |-> out, err |-> err]

\* The identifiers of a range loop that stops one short of its end
\* (range(a, b - 1) for range(a, b)).
Refs_DropsLast(book, chap, a, b) ==
    LET r == Range(a, b - 1) IN [i \in 1..Len(r) |-> VerseRef(book, chap, r[i])]

\* The identifiers (book, chap, a), ..., (book, chap, b - 1).
Refs(book, chap, a, b) ==
    LET r == Range(a, b) IN [i \in 1..Len(r) |-> VerseRef(book, chap, r[i])]

\* The loop `for cnum in range(chap, end_span)` of a cross-chapter range:
\* the rest of each chapter from verse + 1, verse reset to 0 after each.
\* The loop over the chapters without its `verse = 0`: the chapters after
\* the first are taken from the verse the range started after.
RECURSIVE CrossChapters_KeepsVerse(_, _, _, _, _, _)
CrossChapters_KeepsVerse(db, book, cnum, end_span, verse, out) ==
    IF cnum >= end_span THEN [out |-> out, verse |-> verse, err |-> ""]
    ELSE IF ~HasLastVerse(db, book, cnum)
         THEN [out |-> out, verse |-> verse, err |-> "KeyError"]
         ELSE CrossChapters_KeepsVerse(db, book, cnum + 1, end_span, verse,
                  out \o Refs(book, cnum, verse + 1, last_verse(db, book, cnum) + 1))

RECURSIVE CrossChapters(_, _, _, _, _, _)
CrossChapters(db, book, cnum, end_span, verse, out) ==
    IF cnum >= end_span THEN [out |-> out, verse |-> verse, err |-> ""]
    ELSE IF ~HasLastVerse(db, book, cnum)
         THEN [out |-> out, verse |-> verse, err |-> "KeyError"]
         ELSE CrossChapters(db, book, cnum + 1, end_span, 0,
                  out \o Refs(book, cnum, verse + 1, last_verse(db, book, cnum) + 1))

RECURSIVE ParseGroups(_, _, _, _, _)
RECURSIVE ParseClauses(_, _, _, _, _, _, _)

\* The inner loop `while not ps.eos()` over the clauses of one group.
ParseClauses(db, s, pos, book, chap, verse, out) ==
    IF eos(s, pos) THEN Parsed(out, "")
    ELSE
    LET comma == accept(s, pos, ",")
        dash  == accept(s, pos, "-")
        semi  == accept(s, pos, ";")
    IN  IF comma.ok
        THEN LET v == read_num(s, comma.pos)
             IN  IF ~v.ok THEN Parsed(out, "SyntaxError")
                 ELSE ParseClauses(db, s, v.pos, book, chap, v.val,
                          Append(out, VerseRef(book, chap, v.val)))
        ELSE IF dash.ok
        THEN LET end_span == read_num(s, dash.pos)
                 colon    == accept(s, end_span.pos, ":")
             IN  IF ~end_span.ok THEN Parsed(out, "SyntaxError")
                 ELSE IF colon.ok
                 THEN LET cc == CrossChapters(db, book, chap, end_span.val, verse, out)
                          end_verse == read_num(s, colon.pos)
                      IN  IF cc.err # "" THEN Parsed(cc.out, cc.err)
                          ELSE IF ~end_verse.ok THEN Parsed(cc.out, "SyntaxError")
                          ELSE ParseClauses(db, s, end_verse.pos, book,
                                   end_span.val, cc.verse,
                                   cc.out \o Refs(book, end_span.val,
                                                  cc.verse + 1, end_verse.val + 1))
                 ELSE ParseClauses(db, s, end_span.pos, book, chap, verse,
                          out \o Refs(book, chap, verse + 1, end_span.val + 1))
        ELSE IF semi.ok
        THEN ParseGroups(db, s, semi.pos, book, out)
        ELSE Parsed(out, "SyntaxError")

\* The outer loop `while not ps.eos()` over the groups.
ParseGroups(db, s, pos, book, out) ==
    IF eos(s, pos) THEN Parsed(out, "")
    ELSE
    LET name  == IF book = NoBook THEN read_name(s, pos)
                 ELSE [ok |-> TRUE, val |-> book, pos |-> pos]
        chap  == read_num(s, name.pos)
        colon == accept(s, chap.pos, ":")
        verse == read_num(s, colon.pos)
    IN  IF ~name.ok THEN Parsed(out, "SyntaxError")
        ELSE IF ~chap.ok THEN Parsed(out, "SyntaxError")
        ELSE IF eos(s, chap.pos)
        THEN IF HasLastVerse(db, name.val, chap.val)
             THEN Parsed(out \o Refs(name.val, chap.val, 1,
                                     last_verse(db, name.val, chap.val) + 1), "")
             ELSE Parsed(out, "KeyError")
        ELSE IF ~colon.ok THEN Parsed(out, "SyntaxError")
        ELSE IF ~verse.ok THEN Parsed(out, "SyntaxError")
        ELSE ParseClauses(db, s, verse.pos, name.val, chap.val, verse.val,
                 Append(out, VerseRef(name.val, chap.val, verse.val)))

parse_ref(ref, db) == ParseGroups(db, ref, eat_ws(ref, 0), NoBook, <<>>)

\* ------------------------------------------------------------------------
\* The legacy parse_ref (vcg/refs.py), on the cursor of the same ParseStream
\* (refs.py 17-64 repeats the class of bible.py) and with the chapter
\* lengths read from the database it is handed
\* ------------------------------------------------------------------------

RECURSIVE refs_ParseGroups(_, _, _, _, _)
RECURSIVE refs_ParseClauses(_, _, _, _, _, _, _)

\* The inner loop with `return` for the `break` of the ';' branch: the
\* generator ends at the first ';'.
refs_ParseClauses_ReturnsAtSemi(db, s, pos, book, chap, verse, out) ==
    IF eos(s, pos) THEN Parsed(out, "")
    ELSE
    LET comma == accept(s, pos, ",")
        dash  == accept(s, pos, "-")
        semi  == accept(s, pos, ";")
    IN  IF comma.ok
        THEN LET v == read_num(s, comma.pos)
             IN  IF ~v.ok THEN Parsed(out, "SyntaxError")
                 ELSE refs_ParseClauses(db, s, v.pos, book, chap, v.val,
                          Append(out, VerseRef(book, chap, v.val)))
        ELSE IF dash.ok
        THEN LET end_span == read_num(s, dash.pos)
                 colon    == accept(s, end_span.pos, ":")
             IN  IF ~end_span.ok THEN Parsed(out, "SyntaxError")
                 ELSE IF colon.ok
                 THEN LET cc == CrossChapters(db, book, chap, end_span.val, verse, out)
                          end_verse == read_num(s, colon.pos)
                      IN  IF cc.err # "" THEN Parsed(cc.out, cc.err)
                          ELSE IF ~end_verse.ok THEN Parsed(cc.out, "SyntaxError")
                          ELSE refs_ParseClauses(db, s, end_verse.pos, book,
                                   end_span.val, cc.verse,
                                   cc.out \o Refs(book, end_span.val,
                                                  cc.verse + 1, end_verse.val + 1))
                 ELSE refs_ParseClauses(db, s, end_span.pos, book, chap, verse,
                          out \o Refs(book, chap, verse + 1, end_span.val + 1))
        ELSE IF semi.ok
        THEN Parsed(out, "")
        ELSE Parsed(out, "SyntaxError")

\* The inner loop `while not ps.eos()` of refs.parse_ref.
refs_ParseClauses(db, s, pos, book, chap, verse, out) ==
    IF eos(s, pos) THEN Parsed(out, "")
    ELSE
    LET comma == accept(s, pos, ",")
        dash  == accept(s, pos, "-")
        semi  == accept(s, pos, ";")
    IN  IF comma.ok
        THEN LET v == read_num(s, comma.pos)
             IN  IF ~v.ok THEN Parsed(out, "SyntaxError")
                 ELSE refs_ParseClauses(db, s, v.pos, book, chap, v.val,
                          Append(out, VerseRef(book, chap, v.val)))
        ELSE IF dash.ok
        THEN LET end_span == read_num(s, dash.pos)
                 colon    == accept(s, end_span.pos, ":")
             IN  IF ~end_span.ok THEN Parsed(out, "SyntaxError")
                 ELSE IF colon.ok
                 THEN LET cc == CrossChapters(db, book, chap, end_span.val, verse, out)
                          end_verse == read_num(s, colon.pos)
                      IN  IF cc.err # "" THEN Parsed(cc.out, cc.err)
                          ELSE IF ~end_verse.ok THEN Parsed(cc.out, "SyntaxError")
                          ELSE refs_ParseClauses(db, s, end_verse.pos, book,
                                   end_span.val, cc.verse,
                                   cc.out \o Refs(book, end_span.val,
                                                  cc.verse + 1, end_verse.val + 1))
                 ELSE refs_ParseClauses(db, s, end_span.pos, book, chap, verse,
                          out \o Refs(book, chap, verse + 1, end_span.val + 1))
        ELSE IF semi.ok
        THEN refs_ParseGroups(db, s, semi.pos, book, out)
        ELSE Parsed(out, "SyntaxError")

\* The outer loop of refs.parse_ref: after the chapter number it requires
\* the ':' (there is no whole-chapter branch).
refs_ParseGroups(db, s, pos, book, out) ==
    IF eos(s, pos) THEN Parsed(out, "")
    ELSE
    LET name  == IF book = NoBook THEN read_name(s, pos)
                 ELSE [ok |-> TRUE, val |-> book, pos |-> pos]
        chap  == read_num(s, name.pos)
        colon == accept(s, chap.pos, ":")
        verse == read_num(s, colon.pos)
    IN  IF ~name.ok THEN Parsed(out, "SyntaxError")
        ELSE IF ~chap.ok THEN Parsed(out, "SyntaxError")
        ELSE IF ~colon.ok THEN Parsed(out, "SyntaxError")
        ELSE IF ~verse.ok THEN Parsed(out, "SyntaxError")
        ELSE refs_ParseClauses(db, s, verse.pos, name.val, chap.val, verse.val,
                 Append(out, VerseRef(name.val, chap.val, verse.val)))

refs_parse_ref(ref, db) == refs_ParseGroups(db, ref, eat_ws(ref, 0), NoBook, <<>>)

\* The same generator, one loop iteration at a time.  A generator p has the
\* input text and the database, the cursor pos, the locals book, chap and
\* verse, the identifiers yielded so far, and where it stands: pc is
\* "group" at the head of the outer loop, "clause" at the head of the inner
\* loop, "done" when it has returned or raised (err).
Stop(p, err) == [p EXCEPT !.pc = "done", !.err = err]

\* parse_ref up to the head of the outer loop: ParseStream(ref), book = None.
StartParse(ref, db) ==
    [pc |-> "group", text |-> ref, db |-> db, pos |-> eat_ws(ref, 0),
     book |-> NoBook, chap |-> 0, verse |-> 0, out |-> <<>>, err |-> ""]

\* The name the outer loop has for the group: read when no book is set yet
\* (`if not book`), else the book of the groups before.
GroupName(p) ==
    IF p.book = NoBook THEN read_name(p.text, p.pos)
    ELSE [ok |-> TRUE, val |-> p.book, pos |-> p.pos]

\* One pass through the body of the outer loop, up to the head of the
\* inner loop, the break after a whole chapter, or an exception; name,
\* chap, colon and verse are what the reads of the body return, each from
\* where the one before it left the cursor.
GroupBody(p, name, chap, colon, verse) ==
    LET p1 == [p EXCEPT !.book = name.val, !.pos = name.pos]
        p2 == [p1 EXCEPT !.chap = chap.val, !.pos = chap.pos]
    IN  IF ~name.ok THEN Stop(p, "SyntaxError")
        ELSE IF ~chap.ok THEN Stop(p1, "SyntaxError")
        ELSE IF eos(p.text, chap.pos)
        THEN IF HasLastVerse(p.db, name.val, chap.val)
             THEN Stop([p2 EXCEPT !.out = @ \o Refs(name.val, chap.val, 1,
                                     last_verse(p.db, name.val, chap.val) + 1)], "")
             ELSE Stop(p2, "KeyError")
        ELSE IF ~colon.ok THEN Stop(p2, "SyntaxError")
        ELSE IF ~verse.ok THEN Stop([p2 EXCEPT !.pos = colon.pos], "SyntaxError")
        ELSE [p2 EXCEPT !.pc = "clause", !.verse = verse.val, !.pos = verse.pos,
                        !.out = Append(@, VerseRef(name.val, chap.val, verse.val))]

\* What the reads of the inner loop's body return: the three accepts at
\* the cursor, the number after the comma, the number after the dash, the
\* colon after that number and the number after that colon.
ClauseTokens(comma, dash, semi, v, end_span, colon, end_verse) ==
    [comma |-> comma, dash |-> dash, semi |-> semi, v |-> v,
     end_span |-> end_span, colon |-> colon, end_verse |-> end_verse]

\* The body of the inner loop with its final `else: raise` left out: an
\* unexpected character stays where it is and the loop goes on.
ClauseBody_SkipsUnexpected(p, t, cc) ==
    IF t.comma.ok
    THEN IF ~t.v.ok THEN Stop([p EXCEPT !.pos = t.comma.pos], "SyntaxError")
         ELSE [p EXCEPT !.verse = t.v.val, !.pos = t.v.pos,
                        !.out = Append(@, VerseRef(p.book, p.chap, t.v.val))]
    ELSE IF t.dash.ok
    THEN IF ~t.end_span.ok THEN Stop([p EXCEPT !.pos = t.dash.pos], "SyntaxError")
         ELSE IF t.colon.ok
         THEN IF cc.err # ""
              THEN Stop([p EXCEPT !.pos = t.colon.pos, !.out = cc.out], cc.err)
              ELSE IF ~t.end_verse.ok
              THEN Stop([p EXCEPT !.pos = t.colon.pos, !.verse = cc.verse,
                                  !.out = cc.out], "SyntaxError")
              ELSE [p EXCEPT !.pos = t.end_verse.pos, !.chap = t.end_span.val,
                             !.verse = cc.verse,
                             !.out = cc.out \o Refs(p.book, t.end_span.val,
                                                    cc.verse + 1, t.end_verse.val + 1)]
         ELSE [p EXCEPT !.pos = t.end_span.pos,
                        !.out = @ \o Refs(p.book, p.chap, p.verse + 1,
                                          t.end_span.val + 1)]
    ELSE IF t.semi.ok THEN [p EXCEPT !.pc = "group", !.pos = t.semi.pos]
    ELSE p

\* One pass through the body of the inner loop; t is what its reads
\* return, cc what the loop over the chapters of a cross-chapter range
\* leaves.
ClauseBody(p, t, cc) ==
    IF t.comma.ok
    THEN IF ~t.v.ok THEN Stop([p EXCEPT !.pos = t.comma.pos], "SyntaxError")
         ELSE [p EXCEPT !.verse = t.v.val, !.pos = t.v.pos,
                        !.out = Append(@, VerseRef(p.book, p.chap, t.v.val))]
    ELSE IF t.dash.ok
    THEN IF ~t.end_span.ok THEN Stop([p EXCEPT !.pos = t.dash.pos], "SyntaxError")
         ELSE IF t.colon.ok
         THEN IF cc.err # ""
              THEN Stop([p EXCEPT !.pos = t.colon.pos, !.out = cc.out], cc.err)
              ELSE IF ~t.end_verse.ok
              THEN Stop([p EXCEPT !.pos = t.colon.pos, !.verse = cc.verse,
                                  !.out = cc.out], "SyntaxError")
              ELSE [p EXCEPT !.pos = t.end_verse.pos, !.chap = t.end_span.val,
                             !.verse = cc.verse,
                             !.out = cc.out \o Refs(p.book, t.end_span.val,
                                                    cc.verse + 1, t.end_verse.val + 1)]
         ELSE [p EXCEPT !.pos = t.end_span.pos,
                        !.out = @ \o Refs(p.book, p.chap, p.verse + 1,
                                          t.end_span.val + 1)]
    ELSE IF t.semi.ok THEN [p EXCEPT !.pc = "group", !.pos = t.semi.pos]
    ELSE Stop(p, "SyntaxError")

\* ------------------------------------------------------------------------
\* Python values and dicts
\* ------------------------------------------------------------------------

PyBool(b) == [bool |-> b]
PyStr(s) == [str |-> s]

Has(d, k) == k \in DOMAIN d

\* d.get(k, default)
Get(d, k, default) == IF k \in DOMAIN d THEN d[k] ELSE default

\* del d[k], for a key that is present.
DictDel(d, k) == [x \in (DOMAIN d) \ {k} |-> d[x]]

\* ------------------------------------------------------------------------
\* Cards (vcg/model.py)
\* ------------------------------------------------------------------------

Verse(num, text) == [num |-> num, text |-> text]

\* Card.__init__ without keyword options; uuid4() is the next fresh identity.
Card(title, verses, uuid) ==
    [title |-> title, verses |-> verses, uuid |-> uuid, options |-> EmptyDict]

\* Card.get_verse: the index of the first verse with that number, 0 for the
\* KeyError.
get_verse(card, num) ==
    IF \E i \in 1..Len(card.verses) : card.verses[i].num = num
    THEN CHOOSE i \in 1..Len(card.verses) :
            /\ card.verses[i].num = num
            /\ \A j \in 1..(i - 1) : card.verses[j].num # num
    ELSE 0

\* ------------------------------------------------------------------------
\* Options (vcg/render.py)
\* ------------------------------------------------------------------------

LATEX_FONT_SIZES ==
    {PyStr("\\tiny"), PyStr("\\scriptsize"), PyStr("\\footnotesize"),
     PyStr("\\small"), PyStr("\\normalsize"), PyStr("\\large"),
     PyStr("\\Large"), PyStr("\\LARGE"), PyStr("\\huge"), PyStr("\\Huge")}

FLASHCARD_PAPER_SIZES == {PyStr("avery5371"), PyStr("avery5388")}

\* choices=None
NoChoices == {}

Option(kind, choices, default) ==
    [kind |-> kind, choices |-> choices, default |-> default]

DOC_OPTION_KEYS == <<"paper_size", "frame", "grid">>

DOC_OPTION_MAP ==
    [paper_size |-> Option("str", FLASHCARD_PAPER_SIZES, PyStr("avery5388")),
     frame      |-> Option("bool", NoChoices, PyBool(FALSE)),
     grid       |-> Option("bool", NoChoices, PyBool(TRUE))]

CARD_OPTION_KEYS ==
    <<"paragraphs", "columns", "ragged_right", "title_size", "text_size", "num_size">>

CARD_OPTION_MAP ==
    [paragraphs   |-> Option("bool", NoChoices, PyBool(TRUE)),
     columns      |-> Option("bool", NoChoices, PyBool(FALSE)),
     ragged_right |-> Option("bool", NoChoices, PyBool(TRUE)),
     title_size   |-> Option("str", LATEX_FONT_SIZES, PyStr("\\Huge")),
     text_size    |-> Option("str", LATEX_FONT_SIZES, PyStr("\\normalsize")),
     num_size     |-> Option("str", LATEX_FONT_SIZES, PyStr("\\small"))]

\* odef.kind(): bool() is False, str() is "".
KindDefault(odef) == IF odef.kind = "bool" THEN PyBool(FALSE) ELSE PyStr("")

\* odef.kind(value) on a value of the other type: bool of a string is
\* whether it is non-empty, str of a bool is its name.
Coerce(odef, value) ==
    IF odef.kind \in DOMAIN value THEN value
    ELSE IF odef.kind = "bool" THEN PyBool(value.str # "")
    ELSE PyStr(IF value.bool THEN "True" ELSE "False")

\* Option.validate with the membership test left out.
validate_IgnoresChoices(odef, value) ==
    [ok |-> TRUE, val |-> Coerce(odef, value)]

\* Option.validate: the coerced value, or the ValueError for a value outside
\* the choice list.
validate(odef, value) ==
    LET v == Coerce(odef, value)
    IN  IF odef.choices # NoChoices /\ v \notin odef.choices
        THEN [ok |-> FALSE, val |-> v]
        ELSE [ok |-> TRUE, val |-> v]

\* The loop `for okey, odef in MAP.items(): d[okey] = odef.validate(...)`
\* from the i-th key on: the dict as it stands when the loop ends or raises.
RECURSIVE ValidateInto(_, _, _, _, _, _)
ValidateInto(omap, keys, i, d, src, useDefault) ==
    IF i > Len(keys) THEN [ok |-> TRUE, d |-> d]
    ELSE LET odef == omap[keys[i]]
             raw  == Get(src, keys[i],
                         IF useDefault THEN odef.default ELSE KindDefault(odef))
             r    == validate(odef, raw)
         IN  IF ~r.ok THEN [ok |-> FALSE, d |-> d]
             ELSE ValidateInto(omap, keys, i + 1, DictSet(d, keys[i], r.val),
                               src, useDefault)

\* flatten of the document options: paper_size gives its value, frame and
\* grid give their name when true; the tokens that are not None, in order
\* (the comma-joined string, token by token).
Flatten(okey, value) ==
    IF okey = "paper_size" THEN <<value.str>>
    ELSE IF value.bool THEN <<okey>> ELSE <<>>

RECURSIVE Flats(_, _)
Flats(d, i) ==
    IF i > Len(DOC_OPTION_KEYS) THEN <<>>
    ELSE Flatten(DOC_OPTION_KEYS[i], d[DOC_OPTION_KEYS[i]]) \o Flats(d, i + 1)

\* global_options(options): options is a dict of validated values or
\* EmptyDict for None.
global_options(options) ==
    Flats(ValidateInto(DOC_OPTION_MAP, DOC_OPTION_KEYS, 1, EmptyDict, options, TRUE).d, 1)

\* optimized_card that sets every option to its default.
optimized_card_DefaultsOnly(card) ==
    [card EXCEPT !.options =
        ValidateInto(CARD_OPTION_MAP, CARD_OPTION_KEYS, 1, EmptyDict, EmptyDict, TRUE).d]

\* optimized_card: the card with every option validated or defaulted (the
\* values stored in a card were validated when they were stored).
optimized_card(card) ==
    [card EXCEPT !.options =
        ValidateInto(CARD_OPTION_MAP, CARD_OPTION_KEYS, 1, card.options,
                     card.options, TRUE).d]

\* What the template reads of a card: title, options and verses.
CardView(card) ==
    [title |-> card.title, options |-> card.options, verses |-> card.verses]

\* The text render_latex writes: the template applied to the context of
\* the flattened document options and the optimized cards.
LatexSource(cards, options) ==
    [doc_options |-> global_options(options),
     cards |-> [i \in 1..Len(cards) |-> CardView(optimized_card(cards[i]))]]

\* ------------------------------------------------------------------------
\* The web application (vcg/app.py): one session, the temporary files
\* ------------------------------------------------------------------------

VARIABLES
    session,    \* the session dict of the one browser session
    disk,       \* the temporary files that exist: file name -> content
    nextUuid,   \* the uuid the next Card takes
    nextFile,   \* the name the next mkstemp takes
    resp,       \* the last request (seq: the step that handled it) and its response
    steps,      \* the steps taken so far
    bible,      \* a database being loaded from a file and queried
    parser,     \* a parse_ref generator being consumed
    option      \* a call of Option.validate

vars == <<session, disk, nextUuid, nextFile, resp, steps, bible, parser, option>>

\* The variables of the web application, those of the library on its own.
appvars == <<session, disk, nextUuid, nextFile, resp, steps>>
libvars == <<bible, parser, option>>

\* No library call is being followed.
Idle == [pc |-> "idle"]

\* The MIME type None of send_file's default.
None == "None"

\* The part of the state a handler reads and writes.
World == [session |-> session, disk |-> disk, nextUuid |-> nextUuid, nextFile |-> nextFile]

\* What a handler leaves: the world when it returned or raised, the status,
\* the HX-Trigger of the response and its body.
Outcome(w, status, trigger, body) ==
    [w |-> w, status |-> status, trigger |-> trigger, body |-> body]

Text(t) == [kind |-> "text", text |-> t]
Fragment(t) == [kind |-> "fragment", template |-> t]
File(content, mime) == [kind |-> "file", content |-> content, mime |-> mime]

\* An exception no handler catches: the request ends in a server error.
Raise(w, exc) == Outcome(w, 500, "", Text(exc))

\* abort(code)
Abort(w, code) == Outcome(w, code, "", Text("abort"))

\* get_cache_file: the slot, read as empty when its file is gone.
get_cache_file(sess, dsk) ==
    LET cache_file == Has(sess, "preview_cache_file")
    IN  IF cache_file /\ sess["preview_cache_file"] \in DOMAIN dsk
        THEN [hit |-> TRUE, cache_file |-> sess["preview_cache_file"],
              mime_type |-> sess["preview_mime_type"]]
        ELSE [hit |-> FALSE, cache_file |-> 0, mime_type |-> None]

\* set_cache_file: os.unlink of the file the slot names raises
\* FileNotFoundError when that file is gone.
set_cache_file(w, filename, mime_type) ==
    IF Has(w.session, "preview_cache_file")
       /\ w.session["preview_cache_file"] \notin DOMAIN w.disk
    THEN [ok |-> FALSE, w |-> w]
    ELSE [ok |-> TRUE,
          w |-> [w EXCEPT
                   !.disk = IF Has(w.session, "preview_cache_file")
                            THEN DictDel(@, w.session["preview_cache_file"])
                            ELSE @,
                   !.session = DictSet(DictSet(@, "preview_cache_file", filename),
                                       "preview_mime_type", mime_type)]]

\* bust_cache_file that clears the slot and leaves the file on disk.
bust_cache_file_KeepsFile(w) ==
    IF Has(w.session, "preview_cache_file")
    THEN [w EXCEPT
            !.session = DictDel(DictDel(@, "preview_cache_file"), "preview_mime_type")]
    ELSE w

\* bust_cache_file
bust_cache_file(w) ==
    IF Has(w.session, "preview_cache_file")
    THEN [w EXCEPT
            !.disk = IF w.session["preview_cache_file"] \in DOMAIN @
                     THEN DictDel(@, w.session["preview_cache_file"]) ELSE @,
            !.session = DictDel(DictDel(@, "preview_cache_file"), "preview_mime_type")]
    ELSE w

\* session.get("cards", [])
Cards(sess) == Get(sess, "cards", <<>>)

\* The names bound where the except clauses of index and add_card format
\* their flash message (locals and module globals that matter): the
\* message reads `title`.
HandlerNames ==
    {"cards", "book", "chapvers", "view_title", "parse_title", "verses", "err"}

\* flash(message, "error")
flash(sess, category) ==
    DictSet(sess, "_flashes", Append(Get(sess, "_flashes", <<>>), category))

\* The list comprehension [Verse(v.verse, bb[v]) for v in ...] over what the
\* generator p gives: the verses built, or the exception of the parser or
\* of the first lookup that fails.
ConsumeRefs(p) ==
    IF \E i \in 1..Len(p.out) : ~HasVerse(bb, p.out[i])
    THEN [ok |-> FALSE, verses |-> <<>>, yielded |-> p.out]
    ELSE IF p.err # "" THEN [ok |-> FALSE, verses |-> <<>>, yielded |-> p.out]
    ELSE [ok |-> TRUE, yielded |-> p.out,
          verses |-> [i \in 1..Len(p.out) |->
                         Verse(p.out[i].verse, bb.verses[p.out[i]])]]

BuildVerses(parse_title) == ConsumeRefs(parse_ref(parse_title, bb))

\* TryAdd with the cache busted before the list comprehension is tried.
TryAdd_BustsFirst(w, view_title, built) ==
    IF ~built.ok
    THEN [how |-> "NameError", w |-> bust_cache_file(w)]
    ELSE [how |-> "added",
          w |-> bust_cache_file(
                  [w EXCEPT
                     !.session = DictSet(DictSet(@, "cards",
                                    Append(Cards(w.session),
                                           Card(view_title, built.verses, w.nextUuid))),
                                  "chapvers", <<>>),
                     !.nextUuid = @ + 1])]

\* TryAdd with the new card put in front of the deck.
TryAdd_Prepends(w, view_title, built) ==
    IF ~built.ok
    THEN [how |-> "NameError", w |-> w]
    ELSE [how |-> "added",
          w |-> bust_cache_file(
                  [w EXCEPT
                     !.session = DictSet(DictSet(@, "cards",
                                    <<Card(view_title, built.verses, w.nextUuid)>>
                                      \o Cards(w.session)),
                                  "chapvers", <<>>),
                     !.nextUuid = @ + 1])]

\* The try statement of index and add_card, built being what the list
\* comprehension gave: "added", "flashed", or the exception that leaves the
\* handler (the except clause formats its message from `title`).
TryAdd(w, view_title, built) ==
    IF ~built.ok
    THEN IF "title" \in HandlerNames
         THEN [how |-> "flashed", w |-> [w EXCEPT !.session = flash(@, "error")]]
         ELSE [how |-> "NameError", w |-> w]
    ELSE [how |-> "added",
          w |-> bust_cache_file(
                  [w EXCEPT
                     !.session = DictSet(DictSet(@, "cards",
                                    Append(Cards(w.session),
                                           Card(view_title, built.verses, w.nextUuid))),
                                  "chapvers", <<>>),
                     !.nextUuid = @ + 1])]

\* session["book"] = book; session["chapvers"] = chapvers
Remember(w, book, chapvers) ==
    [w EXCEPT !.session = DictSet(DictSet(@, "book", book), "chapvers", chapvers)]

\* The Add of index and of add_card up to its response; bb.pretty_name
\* raises KeyError for a book that has no display name.
AddCard(w, book, chapvers) ==
    IF book \notin DOMAIN BOOK_NAMES
    THEN [how |-> "KeyError", w |-> Remember(w, book, chapvers)]
    ELSE TryAdd(Remember(w, book, chapvers),
                BOOK_NAMES[book] \o <<" ">> \o chapvers,
                BuildVerses(book \o <<" ">> \o chapvers))

\* The response of index after its Add.
IndexAddResponse(a) ==
    IF a.how \in {"added", "flashed"}
    THEN Outcome(a.w, 200, "preview-update", Fragment("index.html"))
    ELSE Raise(a.w, a.how)

\* index with action=Add
index_Add(w, book, chapvers) == IndexAddResponse(AddCard(w, book, chapvers))

\* index with action=Reset: each del raises KeyError for a missing key.
index_Reset(w) ==
    IF ~Has(w.session, "cards") THEN Raise(w, "KeyError")
    ELSE LET w1 == [w EXCEPT !.session = DictDel(@, "cards")]
         IN  IF ~Has(w1.session, "book") THEN Raise(w1, "KeyError")
             ELSE LET w2 == [w1 EXCEPT !.session = DictDel(@, "book")]
                  IN  IF ~Has(w2.session, "chapvers") THEN Raise(w2, "KeyError")
                      ELSE Outcome(
                             bust_cache_file(
                               [w2 EXCEPT !.session = DictDel(@, "chapvers")]),
                             200, "preview-update", Fragment("index.html"))

\* index without an action (GET /)
index_View(w) == Outcome(w, 200, "preview-update", Fragment("index.html"))

\* The response of add_card after its Add.
AddCardResponse(a) ==
    IF a.how = "added"
    THEN Outcome(a.w, 200, "preview-update", Fragment("partials/full_card.html"))
    ELSE IF a.how = "flashed"
    THEN Outcome(a.w, 200, "flash-alert", Text("Error"))
    ELSE Raise(a.w, a.how)

\* add_card
add_card(w, book, chapvers) == AddCardResponse(AddCard(w, book, chapvers))

\* get_session_card that falls back to the first card of the deck.
get_session_card_OrFirst(sess, uuid) ==
    LET cards == Cards(sess)
    IN  IF \E i \in 1..Len(cards) : cards[i].uuid = uuid
        THEN CHOOSE i \in 1..Len(cards) :
                /\ cards[i].uuid = uuid
                /\ \A j \in 1..(i - 1) : cards[j].uuid # uuid
        ELSE IF Len(cards) > 0 THEN 1 ELSE 0

\* get_session_card: the index of the first card with that uuid, 0 for
\* abort(404).
get_session_card(sess, uuid) ==
    LET cards == Cards(sess)
    IN  IF \E i \in 1..Len(cards) : cards[i].uuid = uuid
        THEN CHOOSE i \in 1..Len(cards) :
                /\ cards[i].uuid = uuid
                /\ \A j \in 1..(i - 1) : cards[j].uuid # uuid
        ELSE 0

\* list.pop() in the place of list.remove(c).
ListRemove_Pop(l, c) == SubSeq(l, 1, Len(l) - 1)

\* list.remove(c): the list without its first element equal to c.
ListRemove(l, c) ==
    LET i == CHOOSE k \in 1..Len(l) : l[k] = c /\ \A j \in 1..(k - 1) : l[j] # c
    IN  SubSeq(l, 1, i - 1) \o SubSeq(l, i + 1, Len(l))

\* delete_card
delete_card(w, uuid) ==
    LET i == get_session_card(w.session, uuid)
    IN  IF i = 0 THEN Abort(w, 404)
        ELSE Outcome(
               bust_cache_file(
                 [w EXCEPT !.session["cards"] = ListRemove(@, w.session["cards"][i])]),
               200, "preview-update", Text("OK"))

\* set_card_options: the card's options are written key by key, so a
\* ValueError leaves the keys before it written.
set_card_options(w, uuid, form) ==
    LET i == get_session_card(w.session, uuid)
        r == ValidateInto(CARD_OPTION_MAP, CARD_OPTION_KEYS, 1,
                          w.session["cards"][i].options, form, FALSE)
        w1 == [w EXCEPT !.session["cards"][i].options = r.d]
    IN  IF i = 0 THEN Abort(w, 404)
        ELSE IF ~r.ok THEN Raise(w1, "ValueError")
        ELSE Outcome(bust_cache_file(w1), 200, "preview-update", Text("OK"))

\* set_doc_options: the dict written key by key is the session's own when
\* the session has one, a new one otherwise.
set_doc_options(w, form) ==
    LET r == ValidateInto(DOC_OPTION_MAP, DOC_OPTION_KEYS, 1,
                          Get(w.session, "options", EmptyDict), form, FALSE)
    IN  IF ~r.ok
        THEN Raise(IF Has(w.session, "options")
                   THEN [w EXCEPT !.session["options"] = r.d] ELSE w,
                   "ValueError")
        ELSE Outcome(bust_cache_file([w EXCEPT !.session = DictSet(@, "options", r.d)]),
                     200, "preview-update", Text("OK"))

\* preview_config
preview_config(w, fmt, auto) ==
    Outcome(
      bust_cache_file(
        [w EXCEPT !.session = DictSet(DictSet(@, "preview_fmt", fmt),
                                      "auto_update", auto = "on")]),
      200, "", Fragment("partials/preview-config-form.html"))

\* preview_output
preview_output(w, fmt) == Outcome(w, 200, "", Fragment("partials/preview-window.html"))

\* render_latex without a filename: the cards of the session are optimized
\* in place and the source is written to a new .tex file.
render_latex(w) ==
    LET cards == w.session["cards"]
        src   == LatexSource(cards, Get(w.session, "options", EmptyDict))
    IN  [ok |-> TRUE, out_file |-> w.nextFile,
         w |-> [w EXCEPT
                  !.session["cards"] = [i \in 1..Len(cards) |-> optimized_card(cards[i])],
                  !.disk = DictSet(@, w.nextFile, [fmt |-> "LaTeX", source |-> src]),
                  !.nextFile = @ + 1]]

\* render_pdf: the source is written inside a temporary directory, which is
\* removed with all it holds; pdflatex either fails (CalledProcessError) or
\* leaves the PDF that is moved to a new .pdf file.
render_pdf(w, compilerOk) ==
    LET cards == w.session["cards"]
        src   == LatexSource(cards, Get(w.session, "options", EmptyDict))
        w1    == [w EXCEPT
                    !.session["cards"] = [i \in 1..Len(cards) |-> optimized_card(cards[i])]]
    IN  IF ~compilerOk THEN [ok |-> FALSE, out_file |-> 0, w |-> w1]
        ELSE [ok |-> TRUE, out_file |-> w.nextFile,
              w |-> [w1 EXCEPT
                       !.disk = DictSet(@, w.nextFile, [fmt |-> "PDF", source |-> src]),
                       !.nextFile = @ + 1]]

\* preview_output_src
preview_output_src(w, fmt, compilerOk) ==
    LET cached == get_cache_file(w.session, w.disk)
        r      == IF fmt = "PDF" THEN render_pdf(w, compilerOk) ELSE render_latex(w)
        mime_type == IF fmt = "LaTeX" THEN "text/x-tex" ELSE None
        stored == set_cache_file(r.w, r.out_file, mime_type)
    IN  IF Len(Cards(w.session)) = 0
        THEN Outcome(w, 200, "", Text("No preview available..."))
        ELSE IF cached.hit
        THEN Outcome(w, 200, "", File(w.disk[cached.cache_file], cached.mime_type))
        ELSE IF fmt \notin {"PDF", "LaTeX"} THEN Abort(w, 400)
        ELSE IF ~r.ok THEN Raise(r.w, "CalledProcessError")
        ELSE IF ~stored.ok THEN Raise(stored.w, "FileNotFoundError")
        ELSE Outcome(stored.w, 200, "", File(stored.w.disk[r.out_file], mime_type))

\* edit_card_verse_text
edit_card_verse_text(w, uuid, num, method, new_text) ==
    LET i == get_session_card(w.session, uuid)
        c == w.session["cards"][i]
        k == get_verse(c, num)
        v == c.verses[k]
    IN  IF i = 0 THEN Abort(w, 404)
        ELSE IF k = 0 THEN Raise(w, "KeyError")
        ELSE IF method = "GET"
        THEN Outcome(w, 200, "", Fragment("partials/verse_text_edit.html"))
        ELSE IF ~IsSubstring(new_text, v.text) THEN Abort(w, 403)
        ELSE Outcome(
               bust_cache_file(
                 [w EXCEPT !.session["cards"][i].verses[k].text = new_text]),
               200, "preview-update", Fragment("partials/verse_text.html"))

\* cancel_edit_card_verse_text
cancel_edit_card_verse_text(w, uuid, num) ==
    LET i == get_session_card(w.session, uuid)
    IN  IF i = 0 THEN Abort(w, 404)
        ELSE IF get_verse(w.session["cards"][i], num) = 0 THEN Raise(w, "KeyError")
        ELSE Outcome(w, 200, "", Fragment("partials/verse_text.html"))

\* edit_card_title
edit_card_title(w, uuid, method, new_title) ==
    LET i == get_session_card(w.session, uuid)
    IN  IF i = 0 THEN Abort(w, 404)
        ELSE IF method = "GET"
        THEN Outcome(w, 200, "", Fragment("partials/card_edit_title.html"))
        ELSE Outcome(
               bust_cache_file([w EXCEPT !.session["cards"][i].title = new_title]),
               200, "preview-update", Fragment("partials/full_card.html"))

\* cancel_edit_card_title
cancel_edit_card_title(w, uuid) ==
    IF get_session_card(w.session, uuid) = 0 THEN Abort(w, 404)
    ELSE Outcome(w, 200, "", Fragment("partials/full_card.html"))

\* ------------------------------------------------------------------------
\* The requests the model submits
\* ------------------------------------------------------------------------

\* Forms of Add: book and chapvers.
AddForms ==
    { [book |-> Joh, chapvers |-> <<"1", ":", "1">>],
      [book |-> Joh, chapvers |-> <<"1", ":", "2", "-", "2", ":", "1">>],
      [book |-> Joh, chapvers |-> <<"1", ":">>],
      [book |-> Joh, chapvers |-> <<"1", ":", "2", ",", "9">>],
      [book |-> Xyz, chapvers |-> <<"1", ":", "1">>] }

\* Forms of the card options: one every value of which is valid, one whose
\* text_size is not a font size.
CardOptionForms ==
    { [paragraphs |-> PyStr("on"), title_size |-> PyStr("\\large"),
       text_size |-> PyStr("\\normalsize"), num_size |-> PyStr("\\small")],
      [columns |-> PyStr("on"), title_size |-> PyStr("\\Huge"),
       text_size |-> PyStr("bogus"), num_size |-> PyStr("\\small")] }

\* Forms of the document options: a valid one, and one whose paper_size is
\* not a flashcard paper.
DocOptionForms ==
    { [paper_size |-> PyStr("avery5371"), frame |-> PyStr("on")],
      [paper_size |-> PyStr("letter")] }

\* Replacement texts of a verse edit, titles of a title edit.
NewTexts == { <<"a">>, <<"a", "b">>, <<"a", "b", "c">> }
NewTitles == { <<"T">> }

\* Preview formats asked for, and the forms of the preview configuration.
Formats == {"PDF", "LaTeX", "HTML"}
PreviewConfigs == { [fmt |-> "LaTeX", auto |-> "on"] }

\* Identities a request names: those handed out so far, and one never
\* handed out.
UnknownUuid == 0
Uuids == {UnknownUuid} \cup (1..(nextUuid - 1))

\* Verse numbers a request names.
VerseNums == {1, 2}

\* ------------------------------------------------------------------------
\* The state machine
\* ------------------------------------------------------------------------

Init ==
    /\ session = EmptyDict
    /\ disk = EmptyDict
    /\ nextUuid = 1
    /\ nextFile = 1
    /\ resp = [seq |-> 0, req |-> [route |-> "none"], status |-> 0,
               trigger |-> "", body |-> Text("")]
    /\ steps = 0
    /\ bible = Idle
    /\ parser = Idle
    /\ option = Idle

\* The session store keeps the session a handler leaves when a response is
\* built from it; an exception no handler catches ends the request either
\* with the session saved as it stood (the server error is answered) or
\* with the stored session untouched (the exception is propagated, as under
\* debug=True).
Saved(out) ==
    IF out.status = 500 THEN {session, out.w.session} ELSE {out.w.session}

\* A request handled: the outcome of its handler takes effect.
Handle(req, out) ==
    /\ steps < MaxSteps
    /\ steps' = steps + 1
    /\ session' \in Saved(out)
    /\ disk' = out.w.disk
    /\ nextUuid' = out.w.nextUuid
    /\ nextFile' = out.w.nextFile
    /\ resp' = [seq |-> steps + 1, req |-> req, status |-> out.status,
                trigger |-> out.trigger, body |-> out.body]
    /\ UNCHANGED libvars

IndexAdd ==
    \E f \in AddForms :
        Handle([route |-> "index", action |-> "Add", book |-> f.book,
                chapvers |-> f.chapvers],
               index_Add(World, f.book, f.chapvers))

IndexReset ==
    Handle([route |-> "index", action |-> "Reset"], index_Reset(World))

IndexView ==
    Handle([route |-> "index", action |-> "None"], index_View(World))

AddCardReq ==
    \E f \in AddForms :
        Handle([route |-> "add_card", book |-> f.book, chapvers |-> f.chapvers],
               add_card(World, f.book, f.chapvers))

DeleteCard ==
    \E u \in Uuids :
        Handle([route |-> "delete_card", uuid |-> u], delete_card(World, u))

SetCardOptions ==
    \E u \in Uuids, f \in CardOptionForms :
        Handle([route |-> "set_card_options", uuid |-> u, form |-> f],
               set_card_options(World, u, f))

SetDocOptions ==
    \E f \in DocOptionForms :
        Handle([route |-> "set_doc_options", form |-> f], set_doc_options(World, f))

PreviewConfig ==
    \E f \in PreviewConfigs :
        Handle([route |-> "preview_config", fmt |-> f.fmt, auto |-> f.auto],
               preview_config(World, f.fmt, f.auto))

PreviewOutput ==
    \E fmt \in Formats :
        Handle([route |-> "preview_output", fmt |-> fmt], preview_output(World, fmt))

PreviewOutputSrc ==
    \E fmt \in Formats, compilerOk \in BOOLEAN :
        Handle([route |-> "preview_output_src", fmt |-> fmt, compilerOk |-> compilerOk],
               preview_output_src(World, fmt, compilerOk))

EditCardVerseText ==
    \E u \in Uuids, n \in VerseNums, t \in NewTexts :
        Handle([route |-> "edit_card_verse_text", method |-> "PUT", uuid |-> u,
                num |-> n, newtext |-> t],
               edit_card_verse_text(World, u, n, "PUT", t))

EditCardVerseTextForm ==
    \E u \in Uuids, n \in VerseNums :
        Handle([route |-> "edit_card_verse_text", method |-> "GET", uuid |-> u,
                num |-> n],
               edit_card_verse_text(World, u, n, "GET", <<>>))

CancelEditCardVerseText ==
    \E u \in Uuids, n \in VerseNums :
        Handle([route |-> "cancel_edit_card_verse_text", uuid |-> u, num |-> n],
               cancel_edit_card_verse_text(World, u, n))

EditCardTitle ==
    \E u \in Uuids, t \in NewTitles :
        Handle([route |-> "edit_card_title", method |-> "PUT", uuid |-> u,
                newtitle |-> t],
               edit_card_title(World, u, "PUT", t))

EditCardTitleForm ==
    \E u \in Uuids :
        Handle([route |-> "edit_card_title", method |-> "GET", uuid |-> u],
               edit_card_title(World, u, "GET", <<>>))

CancelEditCardTitle ==
    \E u \in Uuids :
        Handle([route |-> "cancel_edit_card_title", uuid |-> u],
               cancel_edit_card_title(World, u))

\* The environment removes a temporary file (the file the cache slot names
\* may be gone when the slot is read).
ExternalRemove ==
    /\ steps < MaxSteps
    /\ steps' = steps + 1
    /\ \E f \in DOMAIN disk : disk' = DictDel(disk, f)
    /\ UNCHANGED <<session, nextUuid, nextFile, resp>>
    /\ UNCHANGED libvars

Next ==
    \/ IndexAdd
    \/ IndexReset
    \/ IndexView
    \/ AddCardReq
    \/ DeleteCard
    \/ SetCardOptions
    \/ SetDocOptions
    \/ PreviewConfig
    \/ PreviewOutput
    \/ PreviewOutputSrc
    \/ EditCardVerseText
    \/ EditCardVerseTextForm
    \/ CancelEditCardVerseText
    \/ EditCardTitle
    \/ EditCardTitleForm
    \/ CancelEditCardTitle
    \/ ExternalRemove

Spec == Init /\ [][Next]_vars

\* ------------------------------------------------------------------------
\* The database loader on its own: a file is loaded, then queried
\* ------------------------------------------------------------------------

\* The application at rest, as after Init.
AppAtRest ==
    /\ session = EmptyDict
    /\ disk = EmptyDict
    /\ nextUuid = 1
    /\ nextFile = 1
    /\ resp = [seq |-> 0, req |-> [route |-> "none"], status |-> 0,
               trigger |-> "", body |-> Text("")]
    /\ steps = 0

\* The lines of one chapter of n verses, of the chapters of a book from
\* chapter c on, of the books of a file from the k-th on.  A book is given
\* by the numbers of verses of its chapters 1, 2, ...; a file by its books.
ChapterLines(book, c, n) ==
    [v \in 1..n |-> [book |-> book, chapter |-> c, verse |-> v, text |-> <<"a", "b">>]]

RECURSIVE BookLines(_, _, _)
BookLines(book, chapters, c) ==
    IF c > Len(chapters) THEN <<>>
    ELSE ChapterLines(book, c, chapters[c]) \o BookLines(book, chapters, c + 1)

RECURSIVE FileLines(_, _)
FileLines(books, k) ==
    IF k > Len(books) THEN <<>>
    ELSE BookLines(BookCodes[k], books[k], 1) \o FileLines(books, k + 1)

\* The files of the loader's inputs: grouped by book and then by chapter,
\* one to MaxBooks books of one to MaxChapters chapters of one to MaxVerses
\* verses.
ChapterShapes == UNION {[1..n -> 1..MaxVerses] : n \in 1..MaxChapters}
FileShapes == UNION {[1..k -> ChapterShapes] : k \in 1..MaxBooks}
Files == {FileLines(f, 1) : f \in FileShapes}

LoaderInit ==
    /\ AppAtRest
    /\ \E f \in Files : bible = [pc |-> "file", lines |-> f]
    /\ parser = Idle
    /\ option = Idle

\* BibleBooks(stream)
Load ==
    /\ bible.pc = "file"
    /\ bible' = [pc |-> "loaded", lines |-> bible.lines, db |-> BibleBooks(bible.lines)]
    /\ UNCHANGED <<appvars, parser, option>>

\* bb.get_next_ref(v) for a verse of the file.
GetNextRef ==
    /\ bible.pc \in {"loaded", "next"}
    /\ \E i \in 1..Len(bible.lines) :
          LET l == bible.lines[i]
              v == VerseRef(l.book, l.chapter, l.verse)
          IN  bible' = [pc |-> "next", lines |-> bible.lines, db |-> bible.db,
                        ref |-> v, next |-> get_next_ref(bible.db, v)]
    /\ UNCHANGED <<appvars, parser, option>>

LoaderNext == Load \/ GetNextRef

LoaderSpec == LoaderInit /\ [][LoaderNext]_vars

\* ------------------------------------------------------------------------
\* The reference parser on its own: a generator is started and consumed
\* ------------------------------------------------------------------------

\* A reference as it is typed, from what it is made of.  A clause is a
\* comma verse (", a"), a range in the chapter ("-a") or a range that ends
\* in chapter a ("-a:b"); a group is a book name or none, a chapter, and
\* either nothing more (the whole chapter) or a verse and clauses; groups
\* are joined by "; ".
Num(n) == <<Digits[n + 1]>>

Clause(kind, a, b) == [kind |-> kind, a |-> a, b |-> b]

ClauseText(c) ==
    IF c.kind = "comma" THEN <<",", " ">> \o Num(c.a)
    ELSE IF c.kind = "range" THEN <<"-">> \o Num(c.a)
    ELSE <<"-">> \o Num(c.a) \o <<":">> \o Num(c.b)

RECURSIVE ClausesText(_, _)
ClausesText(cs, i) ==
    IF i > Len(cs) THEN <<>> ELSE ClauseText(cs[i]) \o ClausesText(cs, i + 1)

Group(name, chap, verse, clauses) ==
    [name |-> name, chap |-> chap, whole |-> FALSE, verse |-> verse, clauses |-> clauses]

WholeChapter(name, chap) ==
    [name |-> name, chap |-> chap, whole |-> TRUE, verse |-> 0, clauses |-> <<>>]

GroupText(g) ==
    (IF g.name = NoBook THEN <<>> ELSE g.name \o <<" ">>)
    \o Num(g.chap)
    \o (IF g.whole THEN <<>> ELSE <<":">> \o Num(g.verse) \o ClausesText(g.clauses, 1))

RECURSIVE FormText(_, _)
FormText(form, i) ==
    IF i > Len(form) THEN <<>>
    ELSE (IF i > 1 THEN <<";", " ">> ELSE <<>>) \o GroupText(form[i]) \o FormText(form, i + 1)

\* The numbers, clauses and runs of clauses the references are made of.
Nums == 1..MaxNum

ClauseForms ==
    {Clause("comma", v, 0) : v \in Nums}
    \cup {Clause("range", e, 0) : e \in Nums}
    \cup {Clause("cross", c, v) : c \in Nums, v \in Nums}

ClauseSeqs(n) == UNION {[1..k -> ClauseForms] : k \in 0..n}

\* References of one group: a whole chapter of a book, or a verse of Joh
\* followed by clauses.
SingleGroupForms ==
    {<<WholeChapter(b, c)>> : b \in {Joh, Jde, Rev}, c \in Nums}
    \cup {<<Group(Joh, c, v, cs)>> : c \in Nums, v \in Nums, cs \in ClauseSeqs(MaxClauses)}

\* References of two groups: the later group names a book or none.
FirstGroups == {Group(Joh, 1, 1, <<>>), Group(Joh, 2, 1, <<Clause("range", 2, 0)>>)}

LaterGroups ==
    {WholeChapter(b, c) : b \in {NoBook, Joh, Rev}, c \in Nums}
    \cup {Group(b, c, v, cs) : b \in {NoBook, Joh, Rev}, c \in Nums, v \in Nums,
                               cs \in ClauseSeqs(1)}

TwoGroupForms == {<<g1, g2>> : g1 \in FirstGroups, g2 \in LaterGroups}

\* References whose first group names no book.
NoNameTexts ==
    {GroupText(g) : g \in {WholeChapter(NoBook, c) : c \in Nums}
                          \cup {Group(NoBook, c, v, cs) : c \in Nums, v \in Nums,
                                                         cs \in ClauseSeqs(1)}}

\* References whose first group has a ':' that no verse number follows.
ColonTails == {<<>>, <<" ">>, <<",", " ", "1">>, <<"-", "1">>, <<";">>, <<"a">>, <<":", "1">>}

ColonTexts ==
    {b \o <<" ">> \o Num(c) \o <<":">> \o t : b \in {Joh, Rev}, c \in Nums, t \in ColonTails}

\* Other texts: empty, cut short, with stray characters, with spaces around
\* the tokens, with numbers of two digits.
OtherTexts ==
    {<<>>,
     <<" ">>,
     <<"J", "o", "h">>,
     <<"J", "o", "h", " ">>,
     <<"J", "o", "h", " ", "1", " ", "2">>,
     <<"J", "o", "h", " ", "1", ":", "1", " ", "2">>,
     <<"J", "o", "h", " ", "1", ":", "1", ",">>,
     <<"J", "o", "h", " ", "1", ":", "1", "-">>,
     <<"J", "o", "h", " ", "1", ":", "1", "-", "2", ":">>,
     <<"J", "o", "h", " ", "1", ":", "1", ";">>,
     <<"J", "o", "h", " ", "1", ":", "1", ";", ";">>,
     <<"J", "o", "h", " ", "1", ";", "2">>,
     <<"J", "o", "h", "1", ":", "1">>,
     <<" ", "J", "o", "h", " ", " ", "1", " ", ":", " ", "1", " ", "-", " ", "2", " ", ",", " ", "3", " ", ";", " ", "2", " ", ":", " ", "1", " ">>,
     <<"J", "o", "h", " ", "1", "2", ":", "1">>,
     <<"J", "o", "h", " ", "2", ":", "1", "-", "1", "0">>}

\* What the parser is run on: the text, and for a reference built from
\* groups what it is made of.
ParserInputs ==
    {[form |-> f, text |-> FormText(f, 1)] : f \in SingleGroupForms \cup TwoGroupForms}
    \cup {[form |-> <<>>, text |-> t] : t \in NoNameTexts \cup ColonTexts \cup OtherTexts}

\* The databases it is run against: that of the application, and one whose
\* first book has three chapters, of 2, 3 and 2 verses.
ParserDbs == {bb, BibleBooks(FileLines(<< <<2, 3, 2>>, <<2>>, <<1>> >>, 1))}

ParserInit ==
    /\ AppAtRest
    /\ bible = Idle
    /\ option = Idle
    /\ parser = [gen |-> [pc |-> "call"], form |-> <<>>]

\* parse_ref(ref, bb) is called on one of the inputs.
CallParseRef ==
    /\ parser.gen.pc = "call"
    /\ \E i \in ParserInputs, db \in ParserDbs :
          parser' = [gen |-> StartParse(i.text, db), form |-> i.form]
    /\ UNCHANGED <<appvars, bible, option>>

\* The generator is resumed at the head of the outer loop, with input left.
GroupIter ==
    /\ parser.gen.pc = "group"
    /\ ~eos(parser.gen.text, parser.gen.pos)
    /\ \E name \in {GroupName(parser.gen)} :
       \E chap \in {read_num(parser.gen.text, name.pos)} :
       \E colon \in {accept(parser.gen.text, chap.pos, ":")} :
       \E verse \in {read_num(parser.gen.text, colon.pos)} :
          parser' = [parser EXCEPT !.gen = GroupBody(@, name, chap, colon, verse)]
    /\ UNCHANGED <<appvars, bible, option>>

\* The generator is resumed at the head of the inner loop, with input left.
ClauseIter ==
    /\ parser.gen.pc = "clause"
    /\ ~eos(parser.gen.text, parser.gen.pos)
    /\ \E comma \in {accept(parser.gen.text, parser.gen.pos, ",")},
          dash \in {accept(parser.gen.text, parser.gen.pos, "-")},
          semi \in {accept(parser.gen.text, parser.gen.pos, ";")} :
       \E v \in {read_num(parser.gen.text, comma.pos)},
          end_span \in {read_num(parser.gen.text, dash.pos)} :
       \E colon \in {accept(parser.gen.text, end_span.pos, ":")} :
       \E end_verse \in {read_num(parser.gen.text, colon.pos)},
          cc \in {CrossChapters(parser.gen.db, parser.gen.book, parser.gen.chap,
                                end_span.val, parser.gen.verse, parser.gen.out)} :
          parser' = [parser EXCEPT !.gen =
                       ClauseBody(@, ClauseTokens(comma, dash, semi, v, end_span,
                                                  colon, end_verse), cc)]
    /\ UNCHANGED <<appvars, bible, option>>

\* No input is left: both loops end and the generator returns.
Exhaust ==
    /\ parser.gen.pc \in {"group", "clause"}
    /\ eos(parser.gen.text, parser.gen.pos)
    /\ parser' = [parser EXCEPT !.gen = Stop(@, "")]
    /\ UNCHANGED <<appvars, bible, option>>

\* The consumer asks for the next identifier.
Consume == GroupIter \/ ClauseIter \/ Exhaust

ParserNext == CallParseRef \/ Consume

ParserSpec == ParserInit /\ [][ParserNext]_vars

\* The consumer keeps asking for the next identifier until the generator
\* ends (a list comprehension, a for loop).
ParserLive == ParserSpec /\ WF_vars(Consume)

\* ------------------------------------------------------------------------
\* Option.validate on its own (vcg/render.py): one call on one value
\* ------------------------------------------------------------------------

\* The options of DOC_OPTION_MAP and CARD_OPTION_MAP.
OptionKeys ==
    {DOC_OPTION_KEYS[i] : i \in 1..Len(DOC_OPTION_KEYS)}
      \cup {CARD_OPTION_KEYS[i] : i \in 1..Len(CARD_OPTION_KEYS)}

OptionOf(okey) ==
    IF okey \in DOMAIN DOC_OPTION_MAP THEN DOC_OPTION_MAP[okey] ELSE CARD_OPTION_MAP[okey]

\* The values validate is called on: the strings of a submitted form, the
\* names of the choice lists among them, and the booleans a stored option
\* or a default holds.
RawValues ==
    LATEX_FONT_SIZES \cup FLASHCARD_PAPER_SIZES
      \cup {PyStr("letter"), PyStr("\\gigantic"), PyStr("Huge"), PyStr(""), PyStr("on"),
            PyStr("off"), PyStr("True"), PyStr("False")}
      \cup {PyBool(TRUE), PyBool(FALSE)}

OptionInit ==
    /\ AppAtRest
    /\ bible = Idle
    /\ parser = Idle
    /\ option \in [pc : {"call"}, okey : OptionKeys, value : RawValues]

\* odef.validate(value): what it returns or that it raises.
Validate ==
    /\ option.pc = "call"
    /\ option' = [pc     |-> "done",
                  okey   |-> option.okey,
                  value  |-> option.value,
                  result |-> validate(OptionOf(option.okey), option.value)]
    /\ UNCHANGED <<appvars, bible, parser>>

OptionNext == Validate

OptionSpec == OptionInit /\ [][OptionNext]_vars

\* ------------------------------------------------------------------------
\* The verses of a card, addressed by number: cards are added from
\* references of every shape and their verses fetched and edited
\* ------------------------------------------------------------------------

\* What is typed after the book Joh: single verses, lists (one of them
\* naming a verse twice), ranges in a chapter and across chapters, a whole
\* chapter, and a reference that does not parse.
CardRefs ==
    { <<"1", ":", "1">>,
      <<"1", ":", "1", ",", "2">>,
      <<"1", ":", "2", ",", "1">>,
      <<"1", ":", "1", ",", "1">>,
      <<"1", ":", "1", "-", "2">>,
      <<"2">>,
      <<"1", ":", "2", "-", "2", ":", "1">>,
      <<"1", ":", "1", "-", "2", ":", "1">>,
      <<"1", ":", "1", "-", "2", ":", "2">>,
      <<"1", ":">> }

AddReference ==
    /\ Len(Cards(session)) < MaxCards
    /\ \E cv \in CardRefs :
          Handle([route |-> "add_card", book |-> Joh, chapvers |-> cv],
                 add_card(World, Joh, cv))

CardNext ==
    \/ AddReference
    \/ EditCardVerseText
    \/ EditCardVerseTextForm
    \/ CancelEditCardVerseText

CardSpec == Init /\ [][CardNext]_vars

\* ------------------------------------------------------------------------
\* The two parsers side by side: each is consumed to its end on the same
\* reference and database
\* ------------------------------------------------------------------------

BothInit ==
    /\ AppAtRest
    /\ bible = Idle
    /\ option = Idle
    /\ parser = [pc |-> "call"]

\* list(refs.parse_ref(ref, db)) and list(bible.parse_ref(ref, db)), each
\* with the exception that ended it.
ParseWithBoth ==
    /\ parser.pc = "call"
    /\ \E i \in ParserInputs, db \in ParserDbs :
          parser' = [pc     |-> "done",
                     form   |-> i.form,
                     text   |-> i.text,
                     db     |-> db,
                     legacy |-> refs_parse_ref(i.text, db),
                     active |-> parse_ref(i.text, db)]
    /\ UNCHANGED <<appvars, bible, option>>

BothNext == ParseWithBoth

BothSpec == BothInit /\ [][BothNext]_vars

\* ------------------------------------------------------------------------
\* Vocabulary of the properties
\* ------------------------------------------------------------------------

\* This step handled a request (the other steps remove a file).
Handled == resp'.seq = steps'

\* The cache slot is empty: neither key is in the session.
SlotEmpty(sess) ==
    ~Has(sess, "preview_cache_file") /\ ~Has(sess, "preview_mime_type")

\* The cache slot names a file that is on disk / that is gone.
SlotLive(sess, dsk) ==
    Has(sess, "preview_cache_file") /\ sess["preview_cache_file"] \in DOMAIN dsk
SlotStale(sess, dsk) ==
    Has(sess, "preview_cache_file") /\ sess["preview_cache_file"] \notin DOMAIN dsk

\* The request is an Add (on / or on /ajax/card/new), a Reset.
IsAdd(req) ==
    \/ req.route = "add_card"
    \/ (req.route = "index" /\ req.action = "Add")
IsReset(req) == req.route = "index" /\ req.action = "Reset"

\* The request is one of those that change the deck, a title, a verse text,
\* card options or the document options.
IsMutation(req) ==
    \/ IsAdd(req)
    \/ IsReset(req)
    \/ req.route \in {"delete_card", "set_card_options", "set_doc_options"}
    \/ (req.route \in {"edit_card_verse_text", "edit_card_title"} /\ req.method = "PUT")

\* The positions of the cards of a deck that carry the uuid.
Positions(cards, uuid) == {i \in 1..Len(cards) : cards[i].uuid = uuid}

\* The deck without the card at position i.
Without(cards, i) == [k \in 1..(Len(cards) - 1) |-> IF k < i THEN cards[k] ELSE cards[k + 1]]

\* What the reference of an Add request parses to.
ParseOf(req) == parse_ref(req.book \o <<" ">> \o req.chapvers, bb)

\* The reference of an Add request fails: the parser raises or yields an
\* identifier the database does not hold.
AddFails(req) ==
    /\ req.book \in DOMAIN BOOK_NAMES
    /\ \/ ParseOf(req).err # ""
       \/ \E i \in 1..Len(ParseOf(req).out) : ParseOf(req).out[i] \notin DOMAIN bb.verses

\* ------------------------------------------------------------------------
\* C1
\* ------------------------------------------------------------------------

\* C1: every request that successfully changes the deck, a title, a verse
\* text, card options or the document options ends with the cache slot
\* empty and with the file the slot named before the request off the disk.
C1_MutationBustsCache ==
    [][(Handled /\ IsMutation(resp'.req) /\ resp'.status = 200)
         => /\ SlotEmpty(session')
            /\ Has(session, "preview_cache_file")
                 => session["preview_cache_file"] \notin DOMAIN disk']_vars

\* A title edit has succeeded after a preview was rendered, and no file is
\* left.
C1_Witness ==
    /\ resp.req.route = "edit_card_title" /\ resp.req.method = "PUT"
    /\ resp.status = 200
    /\ nextFile > 1
    /\ DOMAIN disk = {}
    /\ SlotEmpty(session)

\* ------------------------------------------------------------------------
\* C2
\* ------------------------------------------------------------------------

\* C2: whenever the cache slot names a file that is on disk, that file holds
\* what a render of the session's current deck and document options gives.
C2_CacheIsCurrent ==
    SlotLive(session, disk)
      => disk[session["preview_cache_file"]].source
           = LatexSource(Cards(session), Get(session, "options", EmptyDict))

\* ------------------------------------------------------------------------
\* C3
\* ------------------------------------------------------------------------

\* The position in the card of the first verse that carries the number.
VersePositions(card, num) == {k \in 1..Len(card.verses) : card.verses[k].num = num}

Least(S) == CHOOSE x \in S : \A y \in S : x <= y

\* C3: a verse-text PUT on a verse of the deck is accepted (the text
\* stored, the cache busted) when the stored text is a substring of the new
\* text, and otherwise answered 403 with the deck unchanged.
C3_EditKeepsTheWord ==
    [][(/\ Handled
        /\ resp'.req.route = "edit_card_verse_text"
        /\ resp'.req.method = "PUT"
        /\ Positions(Cards(session), resp'.req.uuid) # {}
        /\ VersePositions(
             Cards(session)[Least(Positions(Cards(session), resp'.req.uuid))],
             resp'.req.num) # {})
         => LET i == Least(Positions(Cards(session), resp'.req.uuid))
                k == Least(VersePositions(Cards(session)[i], resp'.req.num))
            IN  IF IsSubstring(Cards(session)[i].verses[k].text, resp'.req.newtext)
                THEN /\ resp'.status = 200
                     /\ Cards(session')[i].verses[k].text = resp'.req.newtext
                     /\ SlotEmpty(session')
                ELSE /\ resp'.status = 403
                     /\ Cards(session') = Cards(session)]_vars

\* ------------------------------------------------------------------------
\* C4
\* ------------------------------------------------------------------------

\* C4: a preview-src request for PDF or LaTeX on a non-empty deck, made
\* when the cache slot names a file that is gone (and pdflatex works), is
\* answered with a newly rendered file that the slot then names.
C4_StaleSlotIsAMiss ==
    [][(/\ Handled
        /\ resp'.req.route = "preview_output_src"
        /\ resp'.req.fmt \in {"PDF", "LaTeX"}
        /\ resp'.req.compilerOk
        /\ Len(Cards(session)) > 0
        /\ SlotStale(session, disk))
         => /\ resp'.status = 200
            /\ resp'.body.kind = "file"
            /\ SlotLive(session', disk')
            /\ session'["preview_cache_file"] \notin DOMAIN disk
            /\ resp'.body.content = disk'[session'["preview_cache_file"]]]_vars

\* ------------------------------------------------------------------------
\* C5
\* ------------------------------------------------------------------------

\* The flash messages waiting in a session.
Flashes(sess) == Get(sess, "_flashes", <<>>)

\* C5: an Add whose reference fails to parse or names a verse the database
\* does not hold is answered without a server error and with a flash
\* message recorded.
C5_AddFailureIsFlashed ==
    [][(Handled /\ IsAdd(resp'.req) /\ AddFails(resp'.req))
         => /\ resp'.status = 200
            /\ Len(Flashes(session')) = Len(Flashes(session)) + 1]_vars

\* ------------------------------------------------------------------------
\* C6
\* ------------------------------------------------------------------------

\* The two keys of the cache slot are the same in both sessions.
SameSlot(s1, s2) ==
    \A k \in {"preview_cache_file", "preview_mime_type"} :
        /\ Has(s1, k) <=> Has(s2, k)
        /\ Has(s1, k) => s1[k] = s2[k]

\* C6: an Add whose reference fails leaves the card list as it was, and the
\* cache slot and its file untouched.
C6_FailedAddChangesNoCard ==
    [][(Handled /\ IsAdd(resp'.req) /\ AddFails(resp'.req))
         => /\ Has(session', "cards") <=> Has(session, "cards")
            /\ Cards(session') = Cards(session)
            /\ SameSlot(session', session)
            /\ disk' = disk]_vars

\* An Add has just failed after its parser had yielded an identifier, on a
\* session with a card and a cached file.
C6_Witness ==
    /\ resp.seq = steps
    /\ IsAdd(resp.req) /\ AddFails(resp.req)
    /\ Len(ParseOf(resp.req).out) > 0
    /\ Len(Cards(session)) > 0
    /\ SlotLive(session, disk)

\* ------------------------------------------------------------------------
\* C7
\* ------------------------------------------------------------------------

\* C7: a successful Add appends one card with a new uuid to the deck, its
\* verses those the reference parses to, in parse order; the remembered
\* chapvers is empty, the remembered book is the one submitted, and the
\* cache slot is empty.
C7_AddAppendsOneCard ==
    [][(Handled /\ IsAdd(resp'.req) /\ resp'.status = 200)
         => LET p  == ParseOf(resp'.req)
                D  == Cards(session)
                D2 == Cards(session')
            IN  /\ p.err = ""
                /\ Len(D2) = Len(D) + 1
                /\ SubSeq(D2, 1, Len(D)) = D
                /\ Positions(D, D2[Len(D2)].uuid) = {}
                /\ D2[Len(D2)].verses
                     = [i \in 1..Len(p.out) |->
                          Verse(p.out[i].verse, bb.verses[p.out[i]])]
                /\ session'["chapvers"] = <<>>
                /\ session'["book"] = resp'.req.book
                /\ SlotEmpty(session')]_vars

\* An Add has just put a card of two verses behind another card.
C7_Witness ==
    /\ resp.seq = steps
    /\ IsAdd(resp.req) /\ resp.status = 200
    /\ Len(Cards(session)) >= 2
    /\ Len(Cards(session)[Len(Cards(session))].verses) = 2

\* ------------------------------------------------------------------------
\* C8
\* ------------------------------------------------------------------------

\* C8: after a Reset, whatever the session held, the request has succeeded,
\* the deck is empty, no book and no chapvers is remembered and the cache
\* slot is empty.
C8_ResetAlwaysClears ==
    (resp.seq = steps /\ IsReset(resp.req))
      => /\ resp.status = 200
         /\ Len(Cards(session)) = 0
         /\ ~Has(session, "book")
         /\ ~Has(session, "chapvers")
         /\ SlotEmpty(session)

\* ------------------------------------------------------------------------
\* C9
\* ------------------------------------------------------------------------

\* C9: a DELETE naming a card of the deck leaves the deck without that one
\* card, the others as they were and in their order, and the cache slot
\* empty.
C9_DeleteRemovesThatCard ==
    [][(/\ Handled
        /\ resp'.req.route = "delete_card"
        /\ Positions(Cards(session), resp'.req.uuid) # {})
         => /\ resp'.status = 200
            /\ Cards(session')
                 = Without(Cards(session),
                           Least(Positions(Cards(session), resp'.req.uuid)))
            /\ SlotEmpty(session')]_vars

\* The second of three cards has just been deleted.
C9_Witness ==
    /\ resp.seq = steps
    /\ resp.req.route = "delete_card" /\ resp.status = 200
    /\ Len(Cards(session)) = 2
    /\ Cards(session)[1].uuid = 1
    /\ Cards(session)[2].uuid = 3

\* ------------------------------------------------------------------------
\* C10
\* ------------------------------------------------------------------------

\* The routes addressed by a card's uuid.
UuidRoutes ==
    {"delete_card", "set_card_options", "edit_card_verse_text",
     "cancel_edit_card_verse_text", "edit_card_title", "cancel_edit_card_title"}

\* C10: on every route addressed by a uuid, a uuid that no card of the deck
\* carries is answered 404, and the session (deck, options, cache slot) and
\* the files are left as they were.
C10_UnknownUuidIs404 ==
    [][(/\ Handled
        /\ resp'.req.route \in UuidRoutes
        /\ Positions(Cards(session), resp'.req.uuid) = {})
         => /\ resp'.status = 404
            /\ session' = session
            /\ disk' = disk]_vars

\* A card-options PUT naming no card of a non-empty deck with a cached file
\* has just been answered 404.
C10_Witness ==
    /\ resp.seq = steps
    /\ resp.req.route = "set_card_options" /\ resp.status = 404
    /\ Len(Cards(session)) > 0
    /\ SlotLive(session, disk)

\* ------------------------------------------------------------------------
\* C11
\* ------------------------------------------------------------------------

\* C11: a preview-src request for a format other than PDF and LaTeX is
\* answered 400 whatever the session holds, never with a file and never
\* with the placeholder of the empty deck.
C11_UnsupportedFormatIs400 ==
    [][(/\ Handled
        /\ resp'.req.route = "preview_output_src"
        /\ resp'.req.fmt \notin {"PDF", "LaTeX"})
         => /\ resp'.status = 400
            /\ resp'.body.kind # "file"
            /\ resp'.body # Text("No preview available...")]_vars

\* ------------------------------------------------------------------------
\* C12
\* ------------------------------------------------------------------------

\* C12: once a file grouped by book and then by chapter is loaded, every
\* identifier of the verses map has a chapter entry in the books map that
\* is no smaller than its verse number, and is_valid_ref accepts it.
C12_VersesHaveChapterEntries ==
    bible.pc \in {"loaded", "next"}
      => \A r \in DOMAIN bible.db.verses :
            /\ r.book \in DOMAIN bible.db.books
            /\ r.chapter \in DOMAIN bible.db.books[r.book]
            /\ bible.db.books[r.book][r.chapter] >= r.verse
            /\ is_valid_ref(bible.db, r)

\* ------------------------------------------------------------------------
\* C13
\* ------------------------------------------------------------------------

\* The identifier a line of the file carries, and the line of an identifier.
RefOfLine(l) == VerseRef(l.book, l.chapter, l.verse)
LineOfRef(lines, v) == CHOOSE i \in 1..Len(lines) : RefOfLine(lines[i]) = v

\* C13: for every verse of the loaded file but the last one, get_next_ref
\* returns the identifier of the line that follows it in the file.
C13_NextRefFollowsFileOrder ==
    (bible.pc = "next" /\ LineOfRef(bible.lines, bible.ref) < Len(bible.lines))
      => bible.next
           = Returned(RefOfLine(bible.lines[LineOfRef(bible.lines, bible.ref) + 1]))

\* ------------------------------------------------------------------------
\* Vocabulary of the parser properties
\* ------------------------------------------------------------------------

\* The generator has ended, on a reference made of n groups.
Done == parser.gen.pc = "done"
DoneOn(n) == Done /\ Len(parser.form) = n

\* The identifiers (book, chap, a), (book, chap, a + 1), ..., (book, chap, b),
\* none when b < a.
Verses(book, chap, a, b) ==
    [i \in 1..(IF b >= a THEN b - a + 1 ELSE 0) |-> VerseRef(book, chap, a + i - 1)]

\* The file holds a verse of the chapter.
ChapterInFile(db, book, chap) ==
    \E r \in DOMAIN db.verses : r.book = book /\ r.chapter = chap

\* ------------------------------------------------------------------------
\* C14
\* ------------------------------------------------------------------------

\* C14: a reference made of a book name and a chapter of the file only
\* parses, without an error, to the verses 1 to last_verse(book, chapter) of
\* that chapter in ascending order and to nothing else.
C14_WholeChapter ==
    (/\ DoneOn(1)
     /\ parser.form[1].whole
     /\ ChapterInFile(parser.gen.db, parser.form[1].name, parser.form[1].chap))
      => LET b == parser.form[1].name
             c == parser.form[1].chap
         IN  /\ parser.gen.err = ""
             /\ HasLastVerse(parser.gen.db, b, c)
             /\ parser.gen.out = Verses(b, c, 1, last_verse(parser.gen.db, b, c))

\* ------------------------------------------------------------------------
\* C15
\* ------------------------------------------------------------------------

\* What the clauses cs of a single-chapter group denote from the i-th on:
\* a comma clause its verse, which becomes the current verse; a range clause
\* every verse after the current verse through its end.  The current verse
\* is the one the group started with or the last comma clause named.
RECURSIVE ClausesDenote(_, _, _, _, _)
ClausesDenote(book, chap, cur, cs, i) ==
    IF i > Len(cs) THEN <<>>
    ELSE IF cs[i].kind = "comma"
    THEN <<VerseRef(book, chap, cs[i].a)>> \o ClausesDenote(book, chap, cs[i].a, cs, i + 1)
    ELSE Verses(book, chap, cur + 1, cs[i].a) \o ClausesDenote(book, chap, cur, cs, i + 1)

\* The clauses are comma and range clauses only.
SingleChapter(g) ==
    ~g.whole /\ \A i \in 1..Len(g.clauses) : g.clauses[i].kind \in {"comma", "range"}

\* C15: a single-chapter group 'B c:v1' followed by ', v' and '-e' clauses
\* parses, without an error, to the starting verse, then in input order each
\* comma verse and for each range every verse after the current verse
\* through e, ascending.
C15_CommaAndRangeClauses ==
    (DoneOn(1) /\ SingleChapter(parser.form[1]))
      => LET g == parser.form[1]
         IN  /\ parser.gen.err = ""
             /\ parser.gen.out
                  = <<VerseRef(g.name, g.chap, g.verse)>>
                    \o ClausesDenote(g.name, g.chap, g.verse, g.clauses, 1)

\* 'Joh 2:1-3, 1' has been parsed: a range of two verses after the first,
\* then a comma verse.
C15_Witness ==
    /\ DoneOn(1)
    /\ parser.form[1] = Group(Joh, 2, 1, <<Clause("range", 3, 0), Clause("comma", 1, 0)>>)
    /\ Len(parser.gen.out) = 4

\* ------------------------------------------------------------------------
\* C16
\* ------------------------------------------------------------------------

\* The group is 'B c1:v1-c2:v2' with c1 < c2 and every chapter from c1 to c2
\* in the database.
CrossRange(db, g) ==
    /\ ~g.whole
    /\ Len(g.clauses) = 1
    /\ g.clauses[1].kind = "cross"
    /\ g.chap < g.clauses[1].a
    /\ \A c \in g.chap..g.clauses[1].a : HasLastVerse(db, g.name, c)

\* Every verse of the chapters c, c + 1, ..., c2 - 1 of the book.
RECURSIVE WholeChapters(_, _, _, _)
WholeChapters(db, book, c, c2) ==
    IF c >= c2 THEN <<>>
    ELSE Verses(book, c, 1, last_verse(db, book, c)) \o WholeChapters(db, book, c + 1, c2)

\* What a cross-chapter range is said to give: the start, the later verses
\* of its chapter, the chapters between, the verses 1 to v2 of the last
\* chapter; each identifier the get_next_ref successor of the one before,
\* and the last one (B, c2, v2).
CrossRangeGiven(db, g, out) ==
    LET c2 == g.clauses[1].a
        v2 == g.clauses[1].b
    IN  /\ out = <<VerseRef(g.name, g.chap, g.verse)>>
                 \o Verses(g.name, g.chap, g.verse + 1, last_verse(db, g.name, g.chap))
                 \o WholeChapters(db, g.name, g.chap + 1, c2)
                 \o Verses(g.name, c2, 1, v2)
        /\ \A i \in 1..(Len(out) - 1) : get_next_ref(db, out[i]) = Returned(out[i + 1])
        /\ out[Len(out)] = VerseRef(g.name, c2, v2)

\* C16 as stated: for every cross-chapter range 'B c1:v1-c2:v2' with
\* c1 < c2 and the chapters c1..c2 in the database, the parser yields the
\* start, the rest of c1, the chapters between and the verses 1..v2 of c2,
\* each the get_next_ref successor of the one before, the last (B, c2, v2).
C16_CrossChapterRange ==
    (DoneOn(1) /\ CrossRange(parser.gen.db, parser.form[1]))
      => /\ parser.gen.err = ""
         /\ CrossRangeGiven(parser.gen.db, parser.form[1], parser.gen.out)

\* C16 amended: the same for every such range whose ends (B, c1, v1) and
\* (B, c2, v2) are verses of the database.
C16_CrossChapterRangeOfVerses ==
    (/\ DoneOn(1)
     /\ CrossRange(parser.gen.db, parser.form[1])
     /\ is_valid_ref(parser.gen.db,
                     VerseRef(parser.form[1].name, parser.form[1].chap, parser.form[1].verse))
     /\ is_valid_ref(parser.gen.db,
                     VerseRef(parser.form[1].name, parser.form[1].clauses[1].a,
                              parser.form[1].clauses[1].b)))
      => /\ parser.gen.err = ""
         /\ CrossRangeGiven(parser.gen.db, parser.form[1], parser.gen.out)

\* 'Joh 1:2-3:1' has been parsed against the database whose chapter 2 of
\* Joh has three verses: the range passes through a whole chapter.
C16_Witness ==
    /\ DoneOn(1)
    /\ parser.form[1] = Group(Joh, 1, 2, <<Clause("cross", 3, 1)>>)
    /\ Len(parser.gen.out) = 5

\* ------------------------------------------------------------------------
\* C17
\* ------------------------------------------------------------------------

\* The book a later group is to be parsed against: the one it names, else
\* the one named before it.
BookOfLater(form) == IF form[2].name = NoBook THEN form[1].name ELSE form[2].name

\* The first identifier the later group denotes when its chapter is known.
FirstOfLater(form) ==
    VerseRef(BookOfLater(form), form[2].chap, IF form[2].whole THEN 1 ELSE form[2].verse)

\* C17: in a reference of two groups, the later group is parsed against
\* the book it names, or against the book of the first group when it starts
\* with a chapter number: its first identifier is yielded with that book,
\* as is every identifier after it, and those before carry the first book.
C17_LaterGroupBook ==
    (/\ DoneOn(2)
     /\ parser.form[2].whole
          => HasLastVerse(parser.gen.db, BookOfLater(parser.form), parser.form[2].chap))
      => /\ parser.gen.err # "SyntaxError"
         /\ \E k \in 1..Len(parser.gen.out) :
               /\ parser.gen.out[k] = FirstOfLater(parser.form)
               /\ \A j \in k..Len(parser.gen.out) :
                     parser.gen.out[j].book = BookOfLater(parser.form)
               /\ \A j \in 1..(k - 1) : parser.gen.out[j].book = parser.form[1].name

\* ------------------------------------------------------------------------
\* C18
\* ------------------------------------------------------------------------

\* C18: on a reference whose first group names no book, or has a ':' that
\* no verse number follows, the generator yields nothing at any time and
\* ends with a syntax error.
C18_MalformedFirstGroup ==
    (parser.gen.pc # "call" /\ parser.gen.text \in NoNameTexts \cup ColonTexts)
      => /\ parser.gen.out = <<>>
         /\ Done => parser.gen.err = "SyntaxError"

\* 'Rev 2:-1' has ended: the name, the chapter and the colon were read.
C18_Witness ==
    /\ Done
    /\ parser.gen.text = Rev \o <<" ", "2", ":", "-", "1">>
    /\ parser.gen.pos = 6
    /\ parser.gen.err = "SyntaxError"

\* ------------------------------------------------------------------------
\* C19
\* ------------------------------------------------------------------------

\* C19: every pass through the body of the outer loop and of the inner loop
\* moves the cursor forward or raises, and a generator that is consumed
\* ends, by exhausting the input or by raising.
C19_ParseTerminates ==
    /\ [][(parser.gen.pc \in {"group", "clause"}
             /\ ~eos(parser.gen.text, parser.gen.pos))
            => \/ parser'.gen.pos > parser.gen.pos
               \/ (parser'.gen.pc = "done" /\ parser'.gen.err # "")]_vars
    /\ (parser.gen.pc # "call") ~> (parser.gen.pc = "done" /\ parser.gen.pos <= Len(parser.gen.text))

\* A reference of two groups with spaces around its tokens has been
\* consumed to its end: four identifiers, the input exhausted.
C19_Witness ==
    /\ Done
    /\ parser.gen.text = <<" ", "J", "o", "h", " ", " ", "1", " ", ":", " ", "1", " ", "-", " ",
                           "2", " ", ",", " ", "3", " ", ";", " ", "2", " ", ":", " ", "1", " ">>
    /\ parser.gen.err = ""
    /\ Len(parser.gen.out) = 4
    /\ eos(parser.gen.text, parser.gen.pos)

\* ------------------------------------------------------------------------
\* C20
\* ------------------------------------------------------------------------

\* The value as the declared kind gives it: a value of the kind is itself,
\* a string as a boolean is whether it is non-empty, a boolean as a string
\* is its name.
AsKind(kind, value) ==
    IF kind \in DOMAIN value THEN value
    ELSE IF kind = "bool" THEN [bool |-> value.str # ""]
    ELSE [str |-> IF value.bool THEN "True" ELSE "False"]

\* C20: validate on an option with a choice list returns the coerced value
\* when it is in the list and raises the invalid-value error for every
\* other value (paper_size returns 'avery5388' unchanged and rejects
\* 'letter'); on an option without a choice list it returns the value
\* coerced to the declared kind.
C20_ValidateChoices ==
    option.pc = "done"
      => LET odef == OptionOf(option.okey)
             v    == AsKind(odef.kind, option.value)
             res  == option.result
         IN  /\ odef.choices # NoChoices
                  => /\ v \in odef.choices => (res.ok /\ res.val = v)
                     /\ v \notin odef.choices => ~res.ok
             /\ odef.choices = NoChoices
                  => (res.ok /\ res.val = v /\ DOMAIN res.val = {odef.kind})
             /\ (option.okey = "paper_size" /\ option.value = [str |-> "avery5388"])
                  => (res.ok /\ res.val = option.value)
             /\ (option.okey = "paper_size" /\ option.value = [str |-> "letter"])
                  => ~res.ok

\* validate has rejected 'letter' as a paper size.
C20_Witness ==
    /\ option.pc = "done"
    /\ option.okey = "paper_size"
    /\ option.value = PyStr("letter")
    /\ ~option.result.ok

\* ------------------------------------------------------------------------
\* C21
\* ------------------------------------------------------------------------

\* C21: at most one preview artifact of the session is on disk, and a file
\* that is on disk is the one the session's cache slot names.
C21_OneArtifactOnDisk ==
    /\ Cardinality(DOMAIN disk) <= 1
    /\ \A f \in DOMAIN disk :
          Has(session, "preview_cache_file") /\ session["preview_cache_file"] = f

\* ------------------------------------------------------------------------
\* C22
\* ------------------------------------------------------------------------

\* The endpoints of C22 that change session state: card add, delete, card
\* options, document options, preview configuration, verse edit, title edit.
ChangesState(req) ==
    \/ req.route \in {"add_card", "delete_card", "set_card_options", "set_doc_options",
                      "preview_config"}
    \/ (req.route \in {"edit_card_verse_text", "edit_card_title"} /\ req.method = "PUT")

\* The endpoints that change no state: the cancel fetches, the GET of an
\* edit form, the preview window.
OnlyFetches(req) ==
    \/ req.route \in {"cancel_edit_card_verse_text", "cancel_edit_card_title",
                      "preview_output"}
    \/ (req.route \in {"edit_card_verse_text", "edit_card_title"} /\ req.method = "GET")

\* C22: an answered request to an endpoint that changes session state
\* carries the preview-update trigger; an answered request to an endpoint
\* that changes no state leaves the session as it was and carries no
\* trigger.
C22_MutationsTriggerPreviewUpdate ==
    [][(Handled /\ resp'.status = 200)
         => /\ ChangesState(resp'.req) => resp'.trigger = "preview-update"
            /\ OnlyFetches(resp'.req) => (resp'.trigger = "" /\ session' = session)]_vars

\* ------------------------------------------------------------------------
\* C23
\* ------------------------------------------------------------------------

\* This step answered a preview request with a file it rendered (the slot
\* named no file on disk before it).
RenderedFresh ==
    /\ Handled
    /\ resp'.req.route = "preview_output_src"
    /\ resp'.status = 200
    /\ resp'.body.kind = "file"
    /\ ~SlotLive(session, disk)

\* The six card-level option keys.
CardOptionKeys == {CARD_OPTION_KEYS[i] : i \in 1..Len(CARD_OPTION_KEYS)}

\* C23: after a render every card holds all six card-level option keys,
\* the values set before are kept and the missing ones are the declared
\* defaults; a second render of the cards and document options the first
\* one left changes no card and gives the source the first one wrote.
C23_RenderTwiceSameSource ==
    [][RenderedFresh
         => LET before == session["cards"]
                after  == session'["cards"]
            IN  /\ Len(after) = Len(before)
                /\ \A i \in 1..Len(after) :
                      /\ DOMAIN after[i].options = CardOptionKeys
                      /\ \A k \in CardOptionKeys :
                            after[i].options[k]
                              = IF k \in DOMAIN before[i].options
                                THEN before[i].options[k]
                                ELSE CARD_OPTION_MAP[k].default
                      /\ after[i] = [before[i] EXCEPT !.options = after[i].options]
                      /\ optimized_card(after[i]) = after[i]
                /\ LatexSource(after, Get(session', "options", EmptyDict))
                     = resp'.body.content.source]_vars

\* A deck of two cards has been rendered: the first card had its title
\* size set to \large, the second had no option set.
C23_Witness ==
    /\ resp.req.route = "preview_output_src"
    /\ resp.status = 200
    /\ resp.body.kind = "file"
    /\ Len(Cards(session)) = 2
    /\ session["cards"][1].options["title_size"] = PyStr("\\large")
    /\ session["cards"][2].options["title_size"] = PyStr("\\Huge")

\* ------------------------------------------------------------------------
\* C24
\* ------------------------------------------------------------------------

\* C24: a file returned for GET /ajax/preview-src/<fmt>, fmt PDF or LaTeX,
\* is in the requested format: a PDF with the default MIME type, or LaTeX
\* source with the MIME type text/x-tex.
C24_FileIsInRequestedFormat ==
    (/\ resp.req.route = "preview_output_src"
     /\ resp.req.fmt \in {"PDF", "LaTeX"}
     /\ resp.status = 200
     /\ resp.body.kind = "file")
      => /\ resp.body.content.fmt = resp.req.fmt
         /\ resp.body.mime = IF resp.req.fmt = "LaTeX" THEN "text/x-tex" ELSE None

\* ------------------------------------------------------------------------
\* C25
\* ------------------------------------------------------------------------

\* This step answered an option update with the invalid-value error.
OptionUpdateRejected ==
    /\ Handled
    /\ resp'.req.route \in {"set_card_options", "set_doc_options"}
    /\ resp'.body = Text("ValueError")

\* C25: an option update rejected with the invalid-value error leaves the
\* option map it targets (the options of every card, the document options)
\* and the cache slot as they were before the request.
C25_RejectedUpdateIsAtomic ==
    [][OptionUpdateRejected
         => /\ Cards(session') = Cards(session)
            /\ Has(session', "options") = Has(session, "options")
            /\ Has(session, "options") => session'["options"] = session["options"]
            /\ SameSlot(session, session')]_vars

\* ------------------------------------------------------------------------
\* C26
\* ------------------------------------------------------------------------

\* C26: each verse of each card of the deck is the one get_verse returns
\* for its number.
C26_EveryVerseIsAddressable ==
    \A i \in 1..Len(Cards(session)) :
        LET c == session["cards"][i]
        IN  \A k \in 1..Len(c.verses) : get_verse(c, c.verses[k].num) = k

\* ------------------------------------------------------------------------
\* C27
\* ------------------------------------------------------------------------

\* C27: when the legacy parser completes without an error the active
\* parser gives the same identifiers and no error; the two differ only on
\* a reference whose last group ends right after its chapter number, where
\* the legacy parser ends with a syntax error and the active parser goes
\* on to the whole chapter (or to the error of a chapter the database does
\* not hold).
C27_ActiveRefinesLegacy ==
    parser.pc = "done"
      => /\ parser.legacy.err = "" => parser.active = parser.legacy
         /\ parser.active # parser.legacy
              => /\ parser.form # <<>>
                 /\ parser.form[Len(parser.form)].whole
                 /\ parser.legacy.err = "SyntaxError"
                 /\ LET b == parser.form[1].name
                        c == parser.form[Len(parser.form)].chap
                    IN  IF HasLastVerse(parser.db, b, c)
                        THEN parser.active
                               = Parsed(parser.legacy.out
                                          \o Verses(b, c, 1, last_verse(parser.db, b, c)), "")
                        ELSE parser.active = Parsed(parser.legacy.out, "KeyError")

\* Both parsers have consumed a reference of two groups with a range and a
\* comma clause: the legacy parser completed and yielded four identifiers.
C27_Witness ==
    /\ parser.pc = "done"
    /\ parser.text = <<" ", "J", "o", "h", " ", " ", "1", " ", ":", " ", "1", " ", "-", " ",
                       "2", " ", ",", " ", "3", " ", ";", " ", "2", " ", ":", " ", "1", " ">>
    /\ parser.legacy.err = ""
    /\ Len(parser.legacy.out) = 4

====
